---- MODULE Spec2Model ----
(***************************************************************************)
(* Federal Register API client (src/src/federal-register-api.ts and its    *)
(* CommonJS variant src/unnamed/part_004).                                 *)
(*                                                                         *)
(*   Spec    the result paginator getAllResults, run against an arbitrary  *)
(*           search function                                               *)
(*   SpecQS  the query builder buildQueryString, applied to a bounded set  *)
(*           of parameter objects                                          *)
(*                                                                         *)
(* An optional JavaScript value (a property that may be undefined) is a    *)
(* sequence of length 0 (undefined) or 1 (the value).                      *)
(***************************************************************************)
EXTENDS Integers, Sequences, FiniteSets, TLC

VARIABLES
    pc,          \* position of the getAllResults invocation
    options,     \* the caller's options object
    maxResults,  \* the caller's maxResults argument
    allResults,  \* local accumulator
    page,        \* local page counter
    perPage,     \* local effective page size
    calls,       \* history: the argument of every searchFn call, in order
    responses,   \* history: every response a searchFn call resolved with
    result,      \* the value getAllResults resolved with
    qpc,         \* position of the buildQueryString application
    params,      \* the QueryParams object given to buildQueryString
    qs,          \* the string buildQueryString returned
    endpoint,    \* the endpoint path given to makeRequest
    url,         \* the URL makeRequest gave to fetch
    docFields,   \* the fields argument of getDocument
    requests,    \* history: the URL of every fetch call, in order
    response,    \* the Response the fetch call resolved with
    bodyRead,    \* whether response.json() or response.text() was called
    outcome,     \* how the call ended: a returned value or a thrown error
    epc,         \* position of the tool handler and of the function it awaits
    tool,        \* the tool that was called
    eoNumber,    \* its eo_number argument
    index,       \* the executive order records that the upstream service holds
    sent,        \* history: every upstream request of the call, in order
    page1,       \* the results of the search response
    eo,          \* local of getExecutiveOrderFullText: the record found
    fullDoc,     \* local of getExecutiveOrderFullText: the document record
    lookup,      \* the value the awaited function resolved with
    failure,     \* the error the awaited function rejected with
    payload,     \* the text of the result the tool handler returned
    spc,         \* position of a search operation: before or after its search
    sfn,         \* the search operation that is called
    clock,       \* the instant of the call, in minutes since 1970-01-01T00:00Z
    zone,        \* the time zone of the process
    toolArgs,    \* the arguments of the tool call
    searchArg,   \* the options object given to searchDocuments
    jpc,         \* position of the CommonJS buildQueryString application
    jqs,         \* the string the CommonJS buildQueryString returned
    bpc,         \* position of the getExecutiveOrdersByPresident invocation
    president,   \* its president argument
    fieldsArg,   \* its fields argument
    hasMore,     \* local loop flag
    pageNo,      \* local page counter
    fetched,     \* local accumulator of the records
    searches,    \* history: the options of every search, in order
    replies,     \* history: every response a search resolved with
    returned,    \* the value the invocation resolved with
    transports,  \* HTTP mode: the session map, as its own entries <<key, transport>> in insertion order
    made,        \* the transports constructed so far, each with its sessionId and whether it has closed
    answer,      \* log of the request handled last: what was asked, the status answered, the map before and after
    stage,       \* running, closing (SIGINT handler under way) or exited
    atSignal,    \* the session map when SIGINT arrived
    pending,     \* the keys the for-in loop of the SIGINT handler has still to visit
    attempts,    \* history: every close() called on a transport, by whom and how it ended
    shared,      \* concurrent getAllResults calls: the options object the callers pass, one object for all
    given,       \* that object as it was when the calls were made
    limit,       \* the maxResults argument of each call
    upstream,    \* what the search function answers for each page
    frames,       \* the locals of each call, the requests it issued and the value it returned
    overlap      \* history: whether two calls have been suspended at once

pvars == <<pc, options, maxResults, allResults, page, perPage, calls, responses, result>>
qvars == <<qpc, params, qs, endpoint, url, docFields>>
hvars == <<requests, response, bodyRead, outcome>>
evars == <<epc, tool, eoNumber, index, sent, page1, eo, fullDoc, lookup, failure, payload>>
svars == <<spc, sfn, clock, zone, toolArgs, searchArg>>
jvars == <<jpc, jqs>>
bvars == <<bpc, president, fieldsArg, hasMore, pageNo, fetched, searches, replies, returned>>
tvars == <<transports, made, answer, stage, atSignal, pending, attempts>>
cvars == <<shared, given, limit, upstream, frames, overlap>>
vars == <<pvars, qvars, hvars, evars, svars, jvars, bvars, tvars, cvars>>

\* What the steps of one subsystem leave alone.
notPaginator == <<qvars, hvars, evars, svars, jvars, bvars, tvars, cvars>>
notQuery == <<pvars, evars, svars, jvars, bvars, tvars, cvars>>
notTools == <<pvars, qvars, hvars, svars, jvars, bvars, tvars, cvars>>
notSearch == <<pvars, qvars, hvars, evars, jvars, bvars, tvars, cvars>>
notVariants == <<pvars, qvars, hvars, evars, svars, bvars, tvars, cvars>>
notPresident == <<pvars, qvars, hvars, evars, svars, jvars, tvars, cvars>>
notHttp == <<pvars, qvars, hvars, evars, svars, jvars, bvars, cvars>>
notConcurrent == <<pvars, qvars, hvars, evars, svars, jvars, bvars, tvars>>

None == <<>>
Some(x) == <<x>>

Min(a, b) == IF a < b THEN a ELSE b
Max(a, b) == IF a > b THEN a ELSE b

(***************************************************************************)
(* Bounds of the model.                                                    *)
(***************************************************************************)
MaxResultsBound == 7   \* maxResults ranges over -1 .. MaxResultsBound
MaxPageLen == 2        \* a response carries 0 .. MaxPageLen records
MaxTotalPages == 3     \* a response reports total_pages in 0 .. MaxTotalPages

(***************************************************************************)
(* Program constants of getAllResults.                                     *)
(***************************************************************************)
DEFAULT_PER_PAGE == 100
PER_PAGE_CEILING == 1000

(***************************************************************************)
(* getAllResults: the inputs.                                              *)
(***************************************************************************)
\* options.per_page as the caller may give it: absent, zero, below, at and
\* above the ceiling.
RequestedPerPage == {None, Some(0), Some(2), Some(PER_PAGE_CEILING), Some(PER_PAGE_CEILING + 1)}
\* options.page as the caller may give it.
RequestedPage == {None, Some(3)}
OptionsSet == [conditions : {"filter"}, per_page : RequestedPerPage, page : RequestedPage]
MaxResultsSet == (-1) .. MaxResultsBound

\* The records of the n-th response: the search function is arbitrary and
\* getAllResults never inspects a record, so a record is named by the call
\* that returned it and its position in that page.
Records(n, len) == [i \in 1 .. len |-> <<n, i>>]

\* Every envelope the n-th searchFn call may resolve with: results missing,
\* empty or non-empty; total_pages missing, stale or accurate.
SearchResults(n) ==
    [results : {None} \cup {Some(Records(n, len)) : len \in 0 .. MaxPageLen},
     total_pages : {None} \cup {Some(t) : t \in 0 .. MaxTotalPages}]

(***************************************************************************)
(* getAllResults: the steps of the code.                                   *)
(***************************************************************************)
\* options.per_page || 100
PerPageOrDefault(opts) ==
    IF opts.per_page = None \/ opts.per_page = Some(0)
    THEN DEFAULT_PER_PAGE
    ELSE opts.per_page[1]

EffectivePerPage_NoCeiling(opts) == PerPageOrDefault(opts)
\* const perPage = Math.min(options.per_page || 100, 1000)
EffectivePerPage(opts) == Min(PerPageOrDefault(opts), PER_PAGE_CEILING)

CallArgs_OptionsLast(opts, pg, pp) ==
    [conditions |-> opts.conditions,
     page |-> IF opts.page = None THEN Some(pg) ELSE opts.page,
     per_page |-> IF opts.per_page = None THEN Some(pp) ELSE opts.per_page]
\* { ...options, page, per_page: perPage }
CallArgs(opts, pg, pp) == [opts EXCEPT !.page = Some(pg), !.per_page = Some(pp)]

LoopTest_OffByOne(all, max) == Len(all) <= max
\* while (allResults.length < maxResults)
LoopTest(all, max) == Len(all) < max

IsEmptyPage_MissingOnly(r) == r.results = None
\* !response.results || response.results.length === 0
IsEmptyPage(r) == r.results = None \/ Len(r.results[1]) = 0

Exhausted_Strict(pg, tp) == IF tp = None THEN FALSE ELSE pg > tp[1]
\* page >= response.total_pages   (a comparison with undefined is false)
Exhausted(pg, tp) == IF tp = None THEN FALSE ELSE pg >= tp[1]

SliceTo_NoTruncation(s, end) == s
\* Array.prototype.slice(0, end): a negative end counts from the end of the
\* array, and both indices are clamped to the array.
SliceTo(s, end) ==
    LET e == IF end < 0 THEN Max(Len(s) + end, 0) ELSE Min(end, Len(s))
    IN  SubSeq(s, 1, e)

\* The loop head reached with accumulator all and page pg: either the next
\* searchFn call is issued and the function suspends on its promise, or the
\* loop ends and the function returns the truncated accumulator.
LoopHead(all, pg, pp) ==
    IF LoopTest(all, maxResults)
    THEN /\ calls' = Append(calls, CallArgs(options, pg, pp))
         /\ pc' = "awaiting"
         /\ result' = result
    ELSE /\ calls' = calls
         /\ pc' = "done"
         /\ result' = SliceTo(all, maxResults)

\* break; return allResults.slice(0, maxResults)
Return(all) ==
    /\ calls' = calls
    /\ pc' = "done"
    /\ result' = SliceTo(all, maxResults)

\* The call of getAllResults up to its first await (or its return).
Invoke ==
    /\ pc = "start"
    /\ allResults' = <<>>
    /\ page' = 1
    /\ perPage' = EffectivePerPage(options)
    /\ LoopHead(<<>>, 1, EffectivePerPage(options))
    /\ UNCHANGED <<options, maxResults, responses, notPaginator>>

\* The awaited searchFn promise resolves with r: the rest of the loop body,
\* up to the next await (or the return).
Resolve(r) ==
    /\ pc = "awaiting"
    /\ responses' = Append(responses, r)
    /\ IF IsEmptyPage(r)
       THEN /\ Return(allResults)
            /\ UNCHANGED <<allResults, page>>
       ELSE /\ allResults' = allResults \o r.results[1]
            /\ IF Exhausted(page, r.total_pages)
               THEN /\ Return(allResults \o r.results[1])
                    /\ page' = page
               ELSE /\ page' = page + 1
                    /\ LoopHead(allResults \o r.results[1], page + 1, perPage)
    /\ UNCHANGED <<options, maxResults, perPage, notPaginator>>

\* The awaited searchFn promise rejects: the rejection propagates to the
\* caller of getAllResults.
Reject ==
    /\ pc = "awaiting"
    /\ pc' = "failed"
    /\ UNCHANGED <<options, maxResults, allResults, page, perPage, calls, responses, result, notPaginator>>

QueryIdle ==
    /\ qpc = "off"
    /\ params = None
    /\ qs = <<>>
    /\ endpoint = <<>>
    /\ url = None
    /\ docFields = None
    /\ requests = <<>>
    /\ response = None
    /\ bodyRead = FALSE
    /\ outcome = None

VariantsIdle ==
    /\ jpc = "off"
    /\ jqs = <<>>

PresidentIdle ==
    /\ bpc = "off"
    /\ president = <<>>
    /\ fieldsArg = None
    /\ hasMore = FALSE
    /\ pageNo = 0
    /\ fetched = <<>>
    /\ searches = <<>>
    /\ replies = <<>>
    /\ returned = None

HttpIdle ==
    /\ transports = <<>>
    /\ made = <<>>
    /\ answer = <<>>
    /\ stage = "off"
    /\ atSignal = <<>>
    /\ pending = <<>>
    /\ attempts = {}

ConcurrentIdle ==
    /\ shared = None
    /\ given = None
    /\ limit = <<>>
    /\ upstream = None
    /\ frames = <<>>
    /\ overlap = FALSE

\* No search operation is under way.
SearchIdle ==
    /\ spc = "off"
    /\ sfn = ""
    /\ clock = 0
    /\ zone = ""
    /\ toolArgs = None
    /\ searchArg = None

\* No tool call is under way.
ToolsIdle ==
    /\ epc = "off"
    /\ tool = ""
    /\ eoNumber = 0
    /\ index = <<>>
    /\ sent = <<>>
    /\ page1 = None
    /\ eo = None
    /\ fullDoc = None
    /\ lookup = None
    /\ failure = None
    /\ payload = None

Init ==
    /\ pc = "start"
    /\ options \in OptionsSet
    /\ maxResults \in MaxResultsSet
    /\ allResults = <<>>
    /\ page = 0
    /\ perPage = 0
    /\ calls = <<>>
    /\ responses = <<>>
    /\ result = <<>>
    /\ QueryIdle
    /\ ToolsIdle
    /\ SearchIdle
    /\ VariantsIdle
    /\ PresidentIdle
    /\ HttpIdle
    /\ ConcurrentIdle

Next ==
    \/ Invoke
    \/ \E r \in SearchResults(Len(calls)) : Resolve(r)
    \/ Reject

Spec == Init /\ [][Next]_vars

\* Every searchFn call settles (a search function whose calls return), and
\* the synchronous code between two awaits runs to its end.
FairSpec == Spec /\ WF_vars(Next)

(***************************************************************************)
(* What the histories say, independently of the locals of getAllResults.   *)
(***************************************************************************)
PageOf(r) == IF r.results = None THEN <<>> ELSE r.results[1]

RECURSIVE ConcatPages(_)
ConcatPages(rs) ==
    IF rs = <<>> THEN <<>> ELSE PageOf(Head(rs)) \o ConcatPages(Tail(rs))

\* The first n elements of s (all of s when it has fewer), for n >= 0.
Take(s, n) == [i \in 1 .. Min(n, Len(s)) |-> s[i]]

\* The number of records received before the i-th call was issued.
ReceivedBefore(i) == Len(ConcatPages(SubSeq(responses, 1, i - 1)))

PagesOfSize(n) == \A i \in 1 .. Len(responses) : Len(PageOf(responses[i])) = n

\* C1: for maxResults >= 0 getAllResults returns the concatenation, in page
\* order, of the result sequences of the pages it requested, truncated to
\* its first maxResults elements; with pages of size 2 and maxResults = 3 it
\* returns the 2 records of page 1 followed by the first record of page 2.
C1_ConcatTruncated ==
    pc = "done" /\ maxResults >= 0 =>
        /\ Len(responses) = Len(calls)
        /\ result = Take(ConcatPages(responses), maxResults)
        /\ (maxResults = 3 /\ Len(responses) >= 2 /\ PagesOfSize(2)) =>
               result = <<<<1, 1>>, <<1, 2>>, <<2, 1>>>>

C1_Witness ==
    /\ pc = "done"
    /\ maxResults = 3
    /\ Len(responses) = 2
    /\ PagesOfSize(2)
    /\ Len(result) = 3

\* C2: getAllResults terminates whenever every search call settles, also
\* when every page is non-empty and total_pages is never reached or is
\* missing, and it never issues more search calls than maxResults (none
\* when maxResults is negative).
C2_Terminates ==
    /\ <>(pc = "done" \/ pc = "failed")
    /\ [](Len(calls) <= Max(maxResults, 0))

NeverExhausted ==
    \A i \in 1 .. Len(responses) :
        /\ Len(PageOf(responses[i])) > 0
        /\ \/ responses[i].total_pages = None
           \/ responses[i].total_pages[1] > i

C2_Witness ==
    /\ pc = "done"
    /\ maxResults = 3
    /\ Len(calls) = 3
    /\ NeverExhausted
    /\ responses[1].total_pages = None
    /\ responses[2].total_pages # None

\* C3: once a search call has returned an empty or missing result sequence
\* no further search call is issued, whatever total_pages it reports; when
\* the first page is empty the result is empty and exactly 1 call was issued.
C3_StopOnEmptyPage ==
    /\ \A i \in 1 .. Len(responses) :
           Len(PageOf(responses[i])) = 0 => Len(calls) = i /\ pc = "done"
    /\ (Len(responses) >= 1 /\ Len(PageOf(responses[1])) = 0) =>
           result = <<>> /\ Len(calls) = 1

C3_Witness ==
    /\ pc = "done"
    /\ Len(responses) = 1
    /\ responses[1].results = Some(<<>>)
    /\ responses[1].total_pages = Some(3)
    /\ maxResults > 1

\* C4: when every response reports total_pages = P, every page received is
\* non-empty and maxResults exceeds the number of records, exactly P calls
\* are issued and all records are returned; and no call is issued for a page
\* number greater than the total_pages the previous response reported.
C4_StopAtTotalPages ==
    /\ \A P \in 1 .. MaxTotalPages :
           ( /\ pc = "done"
             /\ Len(responses) >= 1
             /\ \A i \in 1 .. Len(responses) :
                    /\ responses[i].total_pages = Some(P)
                    /\ Len(PageOf(responses[i])) > 0
             /\ Len(ConcatPages(responses)) < maxResults )
           => /\ Len(calls) = P
              /\ result = ConcatPages(responses)
    /\ \A i \in 2 .. Len(calls) :
           responses[i - 1].total_pages # None =>
               calls[i].page[1] <= responses[i - 1].total_pages[1]

C4_Witness ==
    /\ pc = "done"
    /\ maxResults = 7
    /\ Len(calls) = 3
    /\ PagesOfSize(2)
    /\ \A i \in 1 .. 3 : responses[i].total_pages = Some(3)
    /\ Len(result) = 6

\* C5: no search call is issued while maxResults or more records have been
\* accumulated, so maxResults <= 0 issues no call and returns the empty
\* sequence, and the returned sequence never has more than maxResults
\* elements (for a negative maxResults it is empty).
C5_NeverBeyondMax ==
    /\ \A i \in 1 .. Len(calls) : ReceivedBefore(i) < maxResults
    /\ maxResults <= 0 => calls = <<>> /\ result = <<>>
    /\ pc = "done" => Len(result) <= Max(maxResults, 0)

C5_Witness ==
    /\ pc = "done"
    /\ maxResults > 0
    /\ Len(ConcatPages(responses)) > maxResults
    /\ Len(result) = maxResults

\* C6: at most one search call is outstanding at any moment, and the page
\* numbers requested are 1, 2, ..., k in this order, without gap or repeat,
\* whatever page value the caller's options carry.
C6_Sequential ==
    /\ Len(calls) <= Len(responses) + 1
    /\ pc = "awaiting" <=> (Len(calls) = Len(responses) + 1 /\ pc # "failed")
    /\ \A i \in 1 .. Len(calls) : calls[i].page = Some(i)

C6_Witness ==
    /\ options.page = Some(3)
    /\ Len(calls) = 3
    /\ pc = "awaiting"

\* C7: every search call carries the same per_page, min(requested, 1000),
\* where an absent or zero requested per_page counts as 100.
C7_PerPage ==
    \A i \in 1 .. Len(calls) :
        LET requested == IF options.per_page \in {None, Some(0)}
                         THEN 100 ELSE options.per_page[1]
        IN  calls[i].per_page = Some(IF requested < 1000 THEN requested ELSE 1000)

C7_Witness ==
    /\ Len(calls) = 2
    /\ options.per_page = Some(1001)
    /\ calls[1].per_page = Some(1000)
    /\ calls[2].per_page = Some(1000)

(***************************************************************************)
(* buildQueryString: strings and values.                                   *)
(*                                                                         *)
(* A string is the sequence of its characters.  A JavaScript value is a    *)
(* record: t its type tag, s the characters of a string, n a number, e the *)
(* entries <<key, value>> of an object in iteration order, or the elements *)
(* <<<<>>, value>> of an array in index order.                             *)
(***************************************************************************)
Str(chars) == [t |-> "string", s |-> chars, n |-> 0, e |-> <<>>]
Num(k) == [t |-> "number", s |-> <<>>, n |-> k, e |-> <<>>]
Null == [t |-> "null", s |-> <<>>, n |-> 0, e |-> <<>>]
Undefined == [t |-> "undefined", s |-> <<>>, n |-> 0, e |-> <<>>]
Obj(entries) == [t |-> "object", s |-> <<>>, n |-> 0, e |-> entries]
Arr(items) == [t |-> "array", s |-> <<>>, n |-> 0, e |-> [i \in 1 .. Len(items) |-> <<<<>>, items[i]>>]]

\* The number of occurrences of c in s.
Count(s, c) == Cardinality({i \in 1 .. Len(s) : s[i] = c})

RECURSIVE Join(_, _)
\* Array.prototype.join
Join(strs, sep) ==
    IF strs = <<>> THEN <<>>
    ELSE IF Len(strs) = 1 THEN strs[1]
    ELSE strs[1] \o sep \o Join(Tail(strs), sep)

DecimalDigits == <<"0", "1", "2", "3", "4", "5", "6", "7", "8", "9">>
RECURSIVE ToDecimal(_)
\* Number.prototype.toString of a non-negative integer
ToDecimal(k) ==
    IF k < 10 THEN <<DecimalDigits[k + 1]>>
    ELSE ToDecimal(k \div 10) \o <<DecimalDigits[(k % 10) + 1]>>

RECURSIVE StringOf(_)
\* String(value): an array is its elements joined by "," (null and undefined
\* elements as the empty string), any other object is "[object Object]".
StringOf(v) ==
    CASE v.t = "string" -> v.s
      [] v.t = "number" -> ToDecimal(v.n)
      [] v.t = "null" -> <<"n", "u", "l", "l">>
      [] v.t = "undefined" -> <<"u", "n", "d", "e", "f", "i", "n", "e", "d">>
      [] v.t = "object" -> <<"[", "o", "b", "j", "e", "c", "t", " ", "O", "b", "j", "e", "c", "t", "]">>
      [] v.t = "array" ->
            Join([i \in 1 .. Len(v.e) |->
                     IF v.e[i][2].t \in {"null", "undefined"} THEN <<>>
                     ELSE StringOf(v.e[i][2])],
                 <<",">>)

\* The characters encodeURIComponent leaves as they are: letters, digits and
\* the marks - _ . ! ~ * ' ( )
UriUnreserved ==
    {"a", "b", "c", "d", "e", "f", "g", "h", "i", "j", "k", "l", "m", "n", "o", "p", "q", "r", "s", "t", "u", "v", "w", "x", "y", "z"} \cup
    {"A", "B", "C", "D", "E", "F", "G", "H", "I", "J", "K", "L", "M", "N", "O", "P", "Q", "R", "S", "T", "U", "V", "W", "X", "Y", "Z"} \cup
    {"0", "1", "2", "3", "4", "5", "6", "7", "8", "9"} \cup
    {"-", "_", ".", "!", "~", "*", "'", "(", ")"}

\* The escape sequence of a printable ASCII character outside UriUnreserved:
\* "%" and the two upper-case hexadecimal digits of its code.
PercentEscape(c) ==
    CASE c = " " -> <<"%", "2", "0">>
      [] c = "\"" -> <<"%", "2", "2">>
      [] c = "#" -> <<"%", "2", "3">>
      [] c = "$" -> <<"%", "2", "4">>
      [] c = "%" -> <<"%", "2", "5">>
      [] c = "&" -> <<"%", "2", "6">>
      [] c = "+" -> <<"%", "2", "B">>
      [] c = "," -> <<"%", "2", "C">>
      [] c = "/" -> <<"%", "2", "F">>
      [] c = ":" -> <<"%", "3", "A">>
      [] c = ";" -> <<"%", "3", "B">>
      [] c = "<" -> <<"%", "3", "C">>
      [] c = "=" -> <<"%", "3", "D">>
      [] c = ">" -> <<"%", "3", "E">>
      [] c = "?" -> <<"%", "3", "F">>
      [] c = "@" -> <<"%", "4", "0">>
      [] c = "[" -> <<"%", "5", "B">>
      [] c = "\\" -> <<"%", "5", "C">>
      [] c = "]" -> <<"%", "5", "D">>
      [] c = "^" -> <<"%", "5", "E">>
      [] c = "{" -> <<"%", "7", "B">>
      [] c = "|" -> <<"%", "7", "C">>
      [] c = "}" -> <<"%", "7", "D">>

\* A UTF-16 surrogate code unit that has no partner: encodeURIComponent
\* throws URIError on a string that holds one.  The exception is the mark
\* URIError in the output, which the caller turns into its own failure.
LoneSurrogate == "\\uD800"
URIError == "URIError"

EncodeChar(c) ==
    IF c \in UriUnreserved THEN <<c>>
    ELSE IF c = LoneSurrogate THEN <<URIError>>
    ELSE PercentEscape(c)

RECURSIVE EncodeURIComponent(_)
EncodeURIComponent(str) ==
    IF str = <<>> THEN <<>>
    ELSE EncodeChar(Head(str)) \o EncodeURIComponent(Tail(str))

(***************************************************************************)
(* buildQueryString: the steps of the code.                                *)
(***************************************************************************)
Present(value) == value.t # "undefined" /\ value.t # "null"

AddParam_RawKey(parts, key, value) ==
    IF Present(value)
    THEN Append(parts, key \o <<"=">> \o EncodeURIComponent(StringOf(value)))
    ELSE parts
AddParam_KeepNull(parts, key, value) ==
    IF value.t # "undefined"
    THEN Append(parts, EncodeURIComponent(key) \o <<"=">> \o EncodeURIComponent(StringOf(value)))
    ELSE parts
AddParam_SkipEmpty(parts, key, value) ==
    IF Present(value) /\ StringOf(value) # <<>>
    THEN Append(parts, EncodeURIComponent(key) \o <<"=">> \o EncodeURIComponent(StringOf(value)))
    ELSE parts
\* function addParam(key, value): one encoded key=value part, unless the
\* value is undefined or null
AddParam(parts, key, value) ==
    IF Present(value)
    THEN Append(parts, EncodeURIComponent(key) \o <<"=">> \o EncodeURIComponent(StringOf(value)))
    ELSE parts

\* `${prefix}[${key}]`
ScalarKey(prefix, key) == prefix \o <<"[">> \o key \o <<"]">>
\* `${prefix}[${key}][${subKey}]`
NestedKey(prefix, key, subKey) == prefix \o <<"[">> \o key \o <<"]", "[">> \o subKey \o <<"]">>
ArrayKey_NoBrackets(prefix, key) == prefix \o <<"[">> \o key \o <<"]">>
\* `${prefix}[${key}][]`
ArrayKey(prefix, key) == prefix \o <<"[">> \o key \o <<"]", "[", "]">>

RECURSIVE AddSubEntries(_, _, _, _)
\* for (const [subKey, subValue] of Object.entries(value))
AddSubEntries(parts, prefix, key, entries) ==
    IF entries = <<>> THEN parts
    ELSE AddSubEntries(AddParam(parts, NestedKey(prefix, key, Head(entries)[1]), Head(entries)[2]),
                       prefix, key, Tail(entries))

RECURSIVE AddItems(_, _, _, _)
\* for (const item of value)
AddItems(parts, prefix, key, items) ==
    IF items = <<>> THEN parts
    ELSE AddItems(AddParam(parts, ArrayKey(prefix, key), Head(items)[2]),
                  prefix, key, Tail(items))

\* One iteration of addConditions, for the entry key: value.
AddCondition(parts, prefix, key, value) ==
    IF value.t = "object"
    THEN AddSubEntries(parts, prefix, key, value.e)
    ELSE IF value.t = "array"
    THEN AddItems(parts, prefix, key, value.e)
    ELSE AddParam(parts, ScalarKey(prefix, key), value)

RECURSIVE AddConditions(_, _, _)
\* function addConditions(conditions, prefix = 'conditions')
AddConditions(parts, conditions, prefix) ==
    IF conditions = <<>> THEN parts
    ELSE AddConditions(AddCondition(parts, prefix, Head(conditions)[1], Head(conditions)[2]),
                       Tail(conditions), prefix)

RECURSIVE AddFields(_, _)
\* for (const field of params.fields) addParam('fields[]', field)
AddFields(parts, fields) ==
    IF fields = <<>> THEN parts
    ELSE AddFields(AddParam(parts, <<"f", "i", "e", "l", "d", "s", "[", "]">>, Str(Head(fields))), Tail(fields))

AddNumber_KeepZero(parts, key, opt) ==
    IF opt # None THEN AddParam(parts, key, Num(opt[1])) ELSE parts
\* if (params.per_page) addParam('per_page', params.per_page), and page
AddNumber(parts, key, opt) ==
    IF opt # None /\ opt[1] # 0 THEN AddParam(parts, key, Num(opt[1])) ELSE parts

\* if (params.order) addParam('order', params.order), and format
AddString(parts, key, opt) ==
    IF opt # None /\ opt[1] # <<>> THEN AddParam(parts, key, Str(opt[1])) ELSE parts

\* function buildQueryString(params)
BuildQueryString(p) ==
    LET afterConditions ==
            IF p.conditions # None
            THEN AddConditions(<<>>, p.conditions[1], <<"c", "o", "n", "d", "i", "t", "i", "o", "n", "s">>)
            ELSE <<>>
        afterFields ==
            IF p.fields # None /\ Len(p.fields[1]) > 0
            THEN AddFields(afterConditions, p.fields[1])
            ELSE afterConditions
        afterPerPage == AddNumber(afterFields, <<"p", "e", "r", "_", "p", "a", "g", "e">>, p.per_page)
        afterPage == AddNumber(afterPerPage, <<"p", "a", "g", "e">>, p.page)
        afterOrder == AddString(afterPage, <<"o", "r", "d", "e", "r">>, p.order)
        afterFormat == AddString(afterOrder, <<"f", "o", "r", "m", "a", "t">>, p.format)
    IN  Join(afterFormat, <<"&">>)

(***************************************************************************)
(* buildQueryString: the inputs.                                           *)
(***************************************************************************)
MaxSubKeys == 2   \* a nested mapping has 0 .. MaxSubKeys sub-keys
MaxItems == 2     \* a sequence-valued condition has 0 .. MaxItems elements

PlainText == <<"v", "1">>
\* A string of reserved characters, a space and a mark.
ReservedText == <<"a", "&", "b", "=", "[", "c", "]", " ", "!">>

SubKeyNames == {<<"g", "t", "e">>, <<"l", "t", "e">>, <<"y", "&">>}
SubValues == {Str(PlainText), Str(ReservedText), Str(<<>>), Num(2024), Null, Undefined}
ItemValues == {Str(PlainText), Str(ReservedText), Str(<<>>), Null}
ScalarValues ==
    {Str(PlainText), Str(ReservedText), Str(<<>>), Str(<<LoneSurrogate>>), Num(0), Null, Undefined}

\* The sequences of at most n distinct elements of S.
DistinctSeqs(S, n) ==
    {s \in UNION {[1 .. k -> S] : k \in 0 .. n} :
        \A i, j \in 1 .. Len(s) : i # j => s[i] # s[j]}

NestedMappings ==
    UNION {{Obj([i \in 1 .. Len(ks) |-> <<ks[i], vs[i]>>]) : vs \in [1 .. Len(ks) -> SubValues]} :
           ks \in DistinctSeqs(SubKeyNames, MaxSubKeys)}
ScalarSequences ==
    {Arr(items) : items \in UNION {[1 .. k -> ItemValues] : k \in 0 .. MaxItems}}
ConditionValues == ScalarValues \cup NestedMappings \cup ScalarSequences

TypeKey == <<"t", "y", "p", "e">>
RichKey == <<"k">>
LastKey == <<"q", "=">>

\* A condition set: an optional first condition, an optional condition of
\* any shape, an optional last condition whose name needs escaping.
FirstConditions ==
    {<<>>, <<<<TypeKey, Str(PlainText)>>>>, <<<<TypeKey, Null>>>>,
     <<<<TypeKey, Obj(<<<<<<"g", "t", "e">>, Str(PlainText)>>>>)>>>>}
LastConditions == {<<>>, <<<<LastKey, Str(PlainText)>>>>}
ConditionSets ==
    {first \o last : first \in FirstConditions, last \in LastConditions} \cup
    {first \o <<<<RichKey, v>>>> \o last :
        first \in FirstConditions, v \in ConditionValues, last \in LastConditions}

\* Parameter objects that vary the conditions.
ConditionParams ==
    [conditions : {Some(c) : c \in ConditionSets}, fields : {None},
     per_page : {None, Some(50)}, page : {None}, order : {None}, format : {None}]

\* Parameter objects that vary the field selection, paging and sort.
PagingParams ==
    [conditions : {None, Some(<<>>), Some(<<<<RichKey, Str(PlainText)>>>>)},
     fields : {None, Some(<<>>), Some(<<<<"t", "i", "t", "l", "e">>>>), Some(<<<<"t", "i", "t", "l", "e">>, <<"a", "[", "]">>>>), Some(<<<<>>>>)},
     per_page : {None, Some(0), Some(50)},
     page : {None, Some(0), Some(2)},
     order : {None, Some(<<>>), Some(<<"n", "e", "w", "e", "s", "t">>)},
     format : {None, Some(<<>>), Some(<<"j", "s", "o", "n">>)}]

\* { conditions: { president: 'joe-biden' }, per_page: 50 }
ExampleParams ==
    [conditions |-> Some(<<<<<<"p", "r", "e", "s", "i", "d", "e", "n", "t">>, Str(<<"j", "o", "e", "-", "b", "i", "d", "e", "n">>)>>>>),
     fields |-> None, per_page |-> Some(50), page |-> None, order |-> None, format |-> None]

\* The example of the function's documentation:
\* { conditions: { president: 'joe-biden', publication_date: { year: 2024 } }, per_page: 50 }
DocExampleParams ==
    [conditions |-> Some(<<<<<<"p", "r", "e", "s", "i", "d", "e", "n", "t">>, Str(<<"j", "o", "e", "-", "b", "i", "d", "e", "n">>)>>,
                           <<<<"p", "u", "b", "l", "i", "c", "a", "t", "i", "o", "n", "_", "d", "a", "t", "e">>, Obj(<<<<<<"y", "e", "a", "r">>, Num(2024)>>>>)>>>>),
     fields |-> None, per_page |-> Some(50), page |-> None, order |-> None, format |-> None]

ParamSet == ConditionParams \cup PagingParams \cup {ExampleParams, DocExampleParams}

(***************************************************************************)
(* buildQueryString applied to one parameter object.                       *)
(***************************************************************************)
PaginatorIdle ==
    /\ pc = "off"
    /\ options = None
    /\ maxResults = 0
    /\ allResults = <<>>
    /\ page = 0
    /\ perPage = 0
    /\ calls = <<>>
    /\ responses = <<>>
    /\ result = <<>>

\* export const BASE_URL
BASE_URL == <<"h", "t", "t", "p", "s", ":", "/", "/", "w", "w", "w", ".", "f", "e", "d", "e", "r", "a", "l", "r", "e", "g", "i", "s", "t", "e", "r", ".", "g", "o", "v", "/", "a", "p", "i", "/", "v", "1">>
SearchEndpoint == <<"/", "d", "o", "c", "u", "m", "e", "n", "t", "s", ".", "j", "s", "o", "n">>
DocumentNumber == <<"2", "0", "2", "4", "-", "0", "2", "1", "5", "4">>
\* `/documents/${documentNumber}.json`
DocumentEndpoint(documentNumber) == <<"/", "d", "o", "c", "u", "m", "e", "n", "t", "s", "/">> \o documentNumber \o <<".", "j", "s", "o", "n">>

\* The fields argument of getDocument: null, empty or a list of names.
FieldArgs == {None, Some(<<>>), Some(<<<<"t", "i", "t", "l", "e">>>>), Some(<<<<"t", "i", "t", "l", "e">>, <<"r", "a", "w", "_", "t", "e", "x", "t", "_", "u", "r", "l">>>>)}

NoParams ==
    [conditions |-> None, fields |-> None, per_page |-> None, page |-> None,
     order |-> None, format |-> None]

\* getDocument: const params = {}; if (fields && fields.length > 0) params.fields = fields
DocumentParams(fields) ==
    IF fields # None /\ Len(fields[1]) > 0
    THEN [NoParams EXCEPT !.fields = fields]
    ELSE NoParams

MakeUrl_AlwaysQuery(ep, queryString) == BASE_URL \o ep \o <<"?">> \o queryString
\* makeRequest: queryString ? `${BASE_URL}${endpoint}?${queryString}` : `${BASE_URL}${endpoint}`
MakeUrl(ep, queryString) ==
    IF queryString # <<>>
    THEN BASE_URL \o ep \o <<"?">> \o queryString
    ELSE BASE_URL \o ep

\* A raw_text_url or body_html_url of a document record.
RawTextUrl == <<"h", "t", "t", "p", "s", ":", "/", "/", "w", "w", "w", ".", "f", "e", "d", "e", "r", "a", "l", "r", "e", "g", "i", "s", "t", "e", "r", ".", "g", "o", "v", "/", "d", "o", "c", "u", "m", "e", "n", "t", "s", "/", "f", "u", "l", "l", "_", "t", "e", "x", "t", "/", "t", "e", "x", "t", "/", "2", "0", "2", "4", "/", "0", "2", "/", "0", "5", "/", "2", "0", "2", "4", "-", "0", "2", "1", "5", "4", ".", "t", "x", "t">>
BodyHtmlUrl == <<"h", "t", "t", "p", "s", ":", "/", "/", "w", "w", "w", ".", "f", "e", "d", "e", "r", "a", "l", "r", "e", "g", "i", "s", "t", "e", "r", ".", "g", "o", "v", "/", "d", "o", "c", "u", "m", "e", "n", "t", "s", "/", "f", "u", "l", "l", "_", "t", "e", "x", "t", "/", "h", "t", "m", "l", "/", "2", "0", "2", "4", "/", "0", "2", "/", "0", "5", "/", "2", "0", "2", "4", "-", "0", "2", "1", "5", "4", ".", "h", "t", "m", "l">>

\* The status codes and bodies of the responses that fetch resolves with.
Statuses == {200, 204, 404, 500}
JsonBody == <<"{", "}">>
OtherBody == <<"<", "p", ">">>
Responses == [status : Statuses, body : {JsonBody, OtherBody}]

StatusText(status) ==
    CASE status = 200 -> <<"O", "K">>
      [] status = 204 -> <<"N", "o", " ", "C", "o", "n", "t", "e", "n", "t">>
      [] status = 404 -> <<"N", "o", "t", " ", "F", "o", "u", "n", "d">>
      [] OTHER -> <<"I", "n", "t", "e", "r", "n", "a", "l", " ", "S", "e", "r", "v", "e", "r", " ", "E", "r", "r", "o", "r">>

Ok_Always(r) == TRUE
\* response.ok: the status is in the range 200-299
Ok(r) == r.status >= 200 /\ r.status <= 299

Value(v) == [t |-> "value", s |-> v]
Thrown(message) == [t |-> "error", s |-> message]

\* new Error(`Federal Register API error: ${response.status} ${response.statusText}`)
ApiError(r) == <<"F", "e", "d", "e", "r", "a", "l", " ", "R", "e", "g", "i", "s", "t", "e", "r", " ", "A", "P", "I", " ", "e", "r", "r", "o", "r", ":", " ">> \o ToDecimal(r.status) \o <<" ">> \o StatusText(r.status)
\* new Error(`Failed to fetch document text: ${response.status}`)
TextError(r) == <<"F", "a", "i", "l", "e", "d", " ", "t", "o", " ", "f", "e", "t", "c", "h", " ", "d", "o", "c", "u", "m", "e", "n", "t", " ", "t", "e", "x", "t", ":", " ">> \o ToDecimal(r.status)
\* new Error(`Failed to fetch document HTML: ${response.status}`)
HtmlError(r) == <<"F", "a", "i", "l", "e", "d", " ", "t", "o", " ", "f", "e", "t", "c", "h", " ", "d", "o", "c", "u", "m", "e", "n", "t", " ", "H", "T", "M", "L", ":", " ">> \o ToDecimal(r.status)
\* The errors that come from below the code: fetch rejecting for want of
\* a connection, response.json() rejecting a body that is not JSON.
FetchFailed == <<"f", "e", "t", "c", "h", " ", "f", "a", "i", "l", "e", "d">>
SyntaxError == <<"S", "y", "n", "t", "a", "x", "E", "r", "r", "o", "r">>

\* makeRequest is about to be called with a parameter object, or
\* getDocument with a fields argument, or fetchDocumentText or
\* fetchDocumentHtml with a URL.
InitQS ==
    /\ \/ /\ qpc = "input"
          /\ params \in ParamSet
          /\ endpoint = SearchEndpoint
          /\ docFields = None
          /\ url = None
       \/ /\ qpc = "getDocument"
          /\ params = None
          /\ endpoint = <<>>
          /\ docFields \in FieldArgs
          /\ url = None
       \/ /\ qpc = "fetchDocumentText"
          /\ params = None
          /\ endpoint = <<>>
          /\ docFields = None
          /\ url = Some(RawTextUrl)
       \/ /\ qpc = "fetchDocumentHtml"
          /\ params = None
          /\ endpoint = <<>>
          /\ docFields = None
          /\ url = Some(BodyHtmlUrl)
    /\ qs = <<>>
    /\ requests = <<>>
    /\ response = None
    /\ bodyRead = FALSE
    /\ outcome = None
    /\ PaginatorIdle
    /\ ToolsIdle
    /\ SearchIdle
    /\ VariantsIdle
    /\ PresidentIdle
    /\ HttpIdle
    /\ ConcurrentIdle

\* getDocument(documentNumber, fields) up to its call of makeRequest.
GetDocument ==
    /\ qpc = "getDocument"
    /\ params' = DocumentParams(docFields)
    /\ endpoint' = DocumentEndpoint(DocumentNumber)
    /\ qpc' = "input"
    /\ UNCHANGED <<qs, url, docFields, hvars, notQuery>>

\* const queryString = buildQueryString(params); a URIError of
\* encodeURIComponent propagates to the caller of makeRequest.
Build ==
    /\ qpc = "input"
    /\ LET queryString == BuildQueryString(params)
       IN  IF Count(queryString, URIError) > 0
           THEN /\ qs' = <<>>
                /\ qpc' = "threw"
                /\ outcome' = Some(Thrown(<<URIError>>))
           ELSE /\ qs' = queryString
                /\ qpc' = "built"
                /\ outcome' = outcome
    /\ UNCHANGED <<params, endpoint, url, docFields, requests, response, bodyRead, notQuery>>

\* makeRequest: the URL is composed and given to fetch.
Request ==
    /\ qpc = "built"
    /\ url' = Some(MakeUrl(endpoint, qs))
    /\ requests' = Append(requests, MakeUrl(endpoint, qs))
    /\ qpc' = "requested"
    /\ UNCHANGED <<params, qs, endpoint, docFields, response, bodyRead, outcome, notQuery>>

\* makeRequest after await fetch(url): a response that is not ok throws,
\* an ok one is parsed as JSON.
Respond(r) ==
    /\ qpc = "requested"
    /\ response' = Some(r)
    /\ IF ~Ok(r)
       THEN /\ bodyRead' = FALSE
            /\ outcome' = Some(Thrown(ApiError(r)))
            /\ qpc' = "failed"
       ELSE /\ bodyRead' = TRUE
            /\ IF r.body = JsonBody
               THEN outcome' = Some(Value(r.body)) /\ qpc' = "returned"
               ELSE outcome' = Some(Thrown(SyntaxError)) /\ qpc' = "failed"
    /\ UNCHANGED <<params, qs, endpoint, url, docFields, requests, notQuery>>

\* fetchDocumentText(rawTextUrl) and fetchDocumentHtml(bodyHtmlUrl) up
\* to await fetch(...).
FetchDocument ==
    /\ qpc \in {"fetchDocumentText", "fetchDocumentHtml"}
    /\ requests' = Append(requests, url[1])
    /\ qpc' = (IF qpc = "fetchDocumentText" THEN "textRequested" ELSE "htmlRequested")
    /\ UNCHANGED <<params, qs, endpoint, url, docFields, response, bodyRead, outcome, notQuery>>

\* fetchDocumentText and fetchDocumentHtml after await fetch(...): a
\* response that is not ok throws, the text of an ok one is returned.
RespondDocument(r) ==
    /\ qpc \in {"textRequested", "htmlRequested"}
    /\ response' = Some(r)
    /\ IF ~Ok(r)
       THEN /\ bodyRead' = FALSE
            /\ outcome' = Some(Thrown(IF qpc = "textRequested" THEN TextError(r) ELSE HtmlError(r)))
            /\ qpc' = "failed"
       ELSE /\ bodyRead' = TRUE
            /\ outcome' = Some(Value(r.body))
            /\ qpc' = "returned"
    /\ UNCHANGED <<params, qs, endpoint, url, docFields, requests, notQuery>>

\* await fetch(...) rejects: no response; the rejection propagates.
FetchRejects ==
    /\ qpc \in {"requested", "textRequested", "htmlRequested"}
    /\ outcome' = Some(Thrown(FetchFailed))
    /\ qpc' = "failed"
    /\ UNCHANGED <<params, qs, endpoint, url, docFields, requests, response, bodyRead, notQuery>>

NextQS ==
    \/ GetDocument
    \/ Build
    \/ Request
    \/ \E r \in Responses : Respond(r)
    \/ FetchDocument
    \/ \E r \in Responses : RespondDocument(r)
    \/ FetchRejects

SpecQS == InitQS /\ [][NextQS]_vars

(***************************************************************************)
(* The executive order look-ups and the two tools that call them.          *)
(***************************************************************************)
MaxIndex == 3

GET_EXECUTIVE_ORDER == "get_executive_order"
GET_EXECUTIVE_ORDER_FULL_TEXT == "get_executive_order_full_text"
Tools == {GET_EXECUTIVE_ORDER, GET_EXECUTIVE_ORDER_FULL_TEXT}

\* The eo_number arguments.
EoNumbers == {0, 22, 99}

\* The executive_order_number of an upstream record: a number, a string
\* of digits, or null.
EoNumberValues == {Num(10), Num(22), Num(31), Str(<<"2", "2">>), Null}

DOCUMENT_NUMBER == <<"d", "o", "c", "u", "m", "e", "n", "t", "_", "n", "u", "m", "b", "e", "r">>
EXECUTIVE_ORDER_NUMBER == <<"e", "x", "e", "c", "u", "t", "i", "v", "e", "_", "o", "r", "d", "e", "r", "_", "n", "u", "m", "b", "e", "r">>
TITLE == <<"t", "i", "t", "l", "e">>
SIGNING_DATE == <<"s", "i", "g", "n", "i", "n", "g", "_", "d", "a", "t", "e">>
PRESIDENT == <<"p", "r", "e", "s", "i", "d", "e", "n", "t">>
ABSTRACT == <<"a", "b", "s", "t", "r", "a", "c", "t">>
RAW_TEXT_URL == <<"r", "a", "w", "_", "t", "e", "x", "t", "_", "u", "r", "l">>
HTML_URL == <<"h", "t", "m", "l", "_", "u", "r", "l">>
PDF_URL == <<"p", "d", "f", "_", "u", "r", "l">>
FULL_TEXT == <<"f", "u", "l", "l", "_", "t", "e", "x", "t">>
ERROR == <<"e", "r", "r", "o", "r">>

\* The i-th record of the upstream index, as a search result.
RecordOf(i, number) ==
    Obj(<< <<DOCUMENT_NUMBER, Str(<<"2", "0", "2", "4", "-", "0">> \o ToDecimal(i))>>,
           <<EXECUTIVE_ORDER_NUMBER, number>>,
           <<TITLE, Str(<<"E", "O", " ">> \o ToDecimal(i))>> >>)

Indexes ==
    UNION {{[i \in 1 .. n |-> RecordOf(i, numbers[i])] : numbers \in [1 .. n -> EoNumberValues]}
           : n \in 0 .. MaxIndex}

RECURSIVE GetFrom(_, _)
GetFrom(entries, key) ==
    IF entries = <<>> THEN Undefined
    ELSE IF Head(entries)[1] = key THEN Head(entries)[2]
    ELSE GetFrom(Tail(entries), key)

\* object[key]; undefined when the object has no such property
Get(object, key) == GetFrom(object.e, key)

\* !value
Falsy(value) ==
    \/ value.t \in {"null", "undefined"}
    \/ value.t = "string" /\ value.s = <<>>
    \/ value.t = "number" /\ value.n = 0

RECURSIVE ParseDigits(_, _)
ParseDigits(chars, acc) ==
    IF chars = <<>> THEN acc
    ELSE ParseDigits(Tail(chars), acc * 10 + (CHOOSE d \in 0 .. 9 : DecimalDigits[d + 1] = Head(chars)))

\* Number(value), for a non-negative integer, a string, null or undefined:
\* None stands for NaN.
NumberOf(value) ==
    CASE value.t = "number" -> Some(value.n)
      [] value.t = "null" -> Some(0)
      [] value.t = "string" ->
             IF \A i \in 1 .. Len(value.s) : \E d \in 1 .. 10 : DecimalDigits[d] = value.s[i]
             THEN Some(ParseDigits(value.s, 0))
             ELSE None
      [] OTHER -> None

IsTarget_NoCoercion(r, targetNum) == Get(r, EXECUTIVE_ORDER_NUMBER) = Num(targetNum)
\* r => Number(r.executive_order_number) === targetNum
IsTarget(r, targetNum) == NumberOf(Get(r, EXECUTIVE_ORDER_NUMBER)) = Some(targetNum)

RECURSIVE Find(_, _)
\* allResults.results?.find(...): undefined when results is missing or
\* no element passes
Find(results, targetNum) ==
    IF results.t # "array" \/ results.e = <<>> THEN Undefined
    ELSE IF IsTarget(Head(results.e)[2], targetNum) THEN Head(results.e)[2]
    ELSE Find([results EXCEPT !.e = Tail(results.e)], targetNum)

\* match || null
MatchOrNull(match) == IF Falsy(match) THEN Null ELSE match

\* per_page: 100
SearchPerPage == 100

\* The options that getExecutiveOrderByNumber gives to searchDocuments.
DefaultFields ==
    <<<<"d", "o", "c", "u", "m", "e", "n", "t", "_", "n", "u", "m", "b", "e", "r">>,
      <<"e", "x", "e", "c", "u", "t", "i", "v", "e", "_", "o", "r", "d", "e", "r", "_", "n", "u", "m", "b", "e", "r">>,
      <<"e", "x", "e", "c", "u", "t", "i", "v", "e", "_", "o", "r", "d", "e", "r", "_", "n", "o", "t", "e", "s">>,
      <<"t", "i", "t", "l", "e">>,
      <<"a", "b", "s", "t", "r", "a", "c", "t">>,
      <<"s", "i", "g", "n", "i", "n", "g", "_", "d", "a", "t", "e">>,
      <<"p", "u", "b", "l", "i", "c", "a", "t", "i", "o", "n", "_", "d", "a", "t", "e">>,
      <<"p", "r", "e", "s", "i", "d", "e", "n", "t">>,
      <<"h", "t", "m", "l", "_", "u", "r", "l">>,
      <<"p", "d", "f", "_", "u", "r", "l">>,
      <<"f", "u", "l", "l", "_", "t", "e", "x", "t", "_", "x", "m", "l", "_", "u", "r", "l">>,
      <<"b", "o", "d", "y", "_", "h", "t", "m", "l", "_", "u", "r", "l">>,
      <<"c", "i", "t", "a", "t", "i", "o", "n">>,
      <<"s", "t", "a", "r", "t", "_", "p", "a", "g", "e">>,
      <<"e", "n", "d", "_", "p", "a", "g", "e">>>>
SearchOptions(n) ==
    [conditions |-> Some(<< <<<<"t", "y", "p", "e">>, Str(<<"P", "R", "E", "S", "D", "O", "C", "U">>)>>,
                            <<<<"p", "r", "e", "s", "i", "d", "e", "n", "t", "i", "a", "l", "_", "d", "o", "c", "u", "m", "e", "n", "t", "_", "t", "y", "p", "e">>, Str(<<"e", "x", "e", "c", "u", "t", "i", "v", "e", "_", "o", "r", "d", "e", "r">>)>>,
                            <<<<"c", "o", "r", "r", "e", "c", "t", "i", "o", "n">>, Num(0)>>,
                            <<<<"t", "e", "r", "m">>, Str(StringOf(Num(n)))>> >>),
     fields |-> Some(DefaultFields),
     per_page |-> Some(SearchPerPage),
     page |-> None, order |-> None, format |-> None]

\* The fields that getExecutiveOrderFullText asks getDocument for.
FullTextFields ==
    <<<<"d", "o", "c", "u", "m", "e", "n", "t", "_", "n", "u", "m", "b", "e", "r">>,
      <<"e", "x", "e", "c", "u", "t", "i", "v", "e", "_", "o", "r", "d", "e", "r", "_", "n", "u", "m", "b", "e", "r">>,
      <<"t", "i", "t", "l", "e">>,
      <<"s", "i", "g", "n", "i", "n", "g", "_", "d", "a", "t", "e">>,
      <<"p", "r", "e", "s", "i", "d", "e", "n", "t">>,
      <<"a", "b", "s", "t", "r", "a", "c", "t">>,
      <<"r", "a", "w", "_", "t", "e", "x", "t", "_", "u", "r", "l">>,
      <<"h", "t", "m", "l", "_", "u", "r", "l">>,
      <<"p", "d", "f", "_", "u", "r", "l">>>>

UpstreamRequest(kind, u) == [kind |-> kind, url |-> u]
SearchRequest_NoOptions(n) == UpstreamRequest("search", MakeUrl(SearchEndpoint, <<>>))
SearchRequest(n) ==
    UpstreamRequest("search", MakeUrl(SearchEndpoint, BuildQueryString(SearchOptions(n))))
DocumentRequest(record) ==
    UpstreamRequest("document",
                    MakeUrl(DocumentEndpoint(StringOf(Get(record, DOCUMENT_NUMBER))),
                            BuildQueryString(DocumentParams(Some(FullTextFields)))))
TextRequest(doc) == UpstreamRequest("text", StringOf(Get(doc, RAW_TEXT_URL)))

RECURSIVE Pick(_, _, _)
\* The elements of s at the positions of keep, in the order of s.
Pick(s, keep, i) ==
    IF i > Len(s) THEN <<>>
    ELSE (IF i \in keep THEN <<s[i]>> ELSE <<>>) \o Pick(s, keep, i + 1)

\* What the results property of a search response can be: missing, or
\* any selection of the records of the index, in the order of the index.
SearchPages(idx) ==
    {Undefined} \cup {Arr(Pick(idx, keep, 1)) : keep \in SUBSET (1 .. Len(idx))}

\* What the raw_text_url of a document record can be.
RawTextUrls == {Str(RawTextUrl), Str(<<>>), Null, Undefined}

\* The document record that getDocument resolves with for a search record.
DocumentOf(record, rawTextUrl) ==
    Obj(<< <<DOCUMENT_NUMBER, Get(record, DOCUMENT_NUMBER)>>,
           <<EXECUTIVE_ORDER_NUMBER, Get(record, EXECUTIVE_ORDER_NUMBER)>>,
           <<TITLE, Get(record, TITLE)>>,
           <<RAW_TEXT_URL, rawTextUrl>> >>)

\* The bodies of a raw text response.
Texts == {<<>>, <<"B", "y", " ", "t", "h", "e", " ", "a", "u", "t", "h", "o", "r", "i", "t", "y">>}

NOT_AVAILABLE == <<"F", "u", "l", "l", " ", "t", "e", "x", "t", " ", "n", "o", "t", " ", "a", "v", "a", "i", "l", "a", "b", "l", "e", " ", "f", "o", "r", " ", "t", "h", "i", "s", " ", "e", "x", "e", "c", "u", "t", "i", "v", "e", " ", "o", "r", "d", "e", "r">>

\* The result of getExecutiveOrderFullText without a raw_text_url.
PartialResult(n, doc) ==
    Obj(<< <<EXECUTIVE_ORDER_NUMBER, Num(n)>>,
           <<TITLE, Get(doc, TITLE)>>,
           <<SIGNING_DATE, Get(doc, SIGNING_DATE)>>,
           <<PRESIDENT, Get(doc, PRESIDENT)>>,
           <<ABSTRACT, Get(doc, ABSTRACT)>>,
           <<FULL_TEXT, Null>>,
           <<ERROR, Str(NOT_AVAILABLE)>>,
           <<HTML_URL, Get(doc, HTML_URL)>>,
           <<PDF_URL, Get(doc, PDF_URL)>> >>)

\* The result of getExecutiveOrderFullText with the text fetched.
FullResult(n, doc, fullText) ==
    Obj(<< <<EXECUTIVE_ORDER_NUMBER, Num(n)>>,
           <<DOCUMENT_NUMBER, Get(doc, DOCUMENT_NUMBER)>>,
           <<TITLE, Get(doc, TITLE)>>,
           <<SIGNING_DATE, Get(doc, SIGNING_DATE)>>,
           <<PRESIDENT, Get(doc, PRESIDENT)>>,
           <<ABSTRACT, Get(doc, ABSTRACT)>>,
           <<FULL_TEXT, Str(fullText)>>,
           <<HTML_URL, Get(doc, HTML_URL)>>,
           <<PDF_URL, Get(doc, PDF_URL)>> >>)

\* The errors a request of makeRequest can end in, and those of
\* fetchDocumentText.
NotFoundResponse == [status |-> 404, body |-> OtherBody]
ServerErrorResponse == [status |-> 500, body |-> OtherBody]
RequestErrors ==
    {ApiError(NotFoundResponse), ApiError(ServerErrorResponse), FetchFailed, SyntaxError}
TextErrors ==
    {TextError(NotFoundResponse), TextError(ServerErrorResponse), FetchFailed}

RECURSIVE JsonEscape(_)
JsonEscape(chars) ==
    IF chars = <<>> THEN <<>>
    ELSE (IF Head(chars) \in {"\"", "\\"} THEN <<"\\", Head(chars)>> ELSE <<Head(chars)>>)
         \o JsonEscape(Tail(chars))

JsonString(chars) == <<"\"">> \o JsonEscape(chars) \o <<"\"">>

\* JSON.stringify(data, null, 2) of a string, a number, null, or an object
\* of such values: a property whose value is undefined is left out.
JsonStringify(data) ==
    CASE data.t = "string" -> JsonString(data.s)
      [] data.t = "number" -> ToDecimal(data.n)
      [] data.t = "null" -> <<"n", "u", "l", "l">>
      [] OTHER ->
             LET kept == SelectSeq(data.e, LAMBDA en : en[2].t # "undefined")
                 line(en) == <<" ", " ">> \o JsonString(en[1]) \o <<":", " ">>
                             \o (CASE en[2].t = "string" -> JsonString(en[2].s)
                                   [] en[2].t = "number" -> ToDecimal(en[2].n)
                                   [] OTHER -> <<"n", "u", "l", "l">>)
             IN  IF kept = <<>> THEN <<"{", "}">>
                 ELSE <<"{", "\n">>
                      \o Join([i \in 1 .. Len(kept) |-> line(kept[i])], <<",", "\n">>)
                      \o <<"\n", "}">>

\* `Executive order ${args.eo_number} not found.`
NotFoundText(n) == <<"E", "x", "e", "c", "u", "t", "i", "v", "e", " ", "o", "r", "d", "e", "r", " ">> \o StringOf(Num(n)) \o <<" ", "n", "o", "t", " ", "f", "o", "u", "n", "d", ".">>

\* A tool is about to be called.
InitTools ==
    /\ epc = "tool"
    /\ tool \in Tools
    /\ eoNumber \in EoNumbers
    /\ index \in Indexes
    /\ sent = <<>>
    /\ page1 = None
    /\ eo = None
    /\ fullDoc = None
    /\ lookup = None
    /\ failure = None
    /\ payload = None
    /\ PaginatorIdle
    /\ QueryIdle
    /\ SearchIdle
    /\ VariantsIdle
    /\ PresidentIdle
    /\ HttpIdle
    /\ ConcurrentIdle

\* The handler calls getExecutiveOrderByNumber, directly or through
\* getExecutiveOrderFullText, which runs up to await searchDocuments(...).
CallTool ==
    /\ epc = "tool"
    /\ sent' = Append(sent, SearchRequest(eoNumber))
    /\ epc' = "search"
    /\ UNCHANGED <<tool, eoNumber, index, page1, eo, fullDoc, lookup, failure, payload, notTools>>

LookupMissed_Never(found) == FALSE
\* if (!eo)
LookupMissed(found) == Falsy(found)

\* The search resolves: getExecutiveOrderByNumber returns the match or
\* null; getExecutiveOrderFullText returns null on null and otherwise
\* runs up to await getDocument(...).
SearchResolves(results) ==
    /\ epc = "search"
    /\ page1' = Some(results)
    /\ LET found == MatchOrNull(Find(results, eoNumber))
       IN  IF tool = GET_EXECUTIVE_ORDER
           THEN /\ lookup' = Some(found)
                /\ epc' = "resolved"
                /\ UNCHANGED <<eo, sent>>
           ELSE IF LookupMissed(found)
           THEN /\ lookup' = Some(Null)
                /\ epc' = "resolved"
                /\ UNCHANGED <<eo, sent>>
           ELSE /\ eo' = Some(found)
                /\ sent' = Append(sent, DocumentRequest(found))
                /\ epc' = "document"
                /\ UNCHANGED lookup
    /\ UNCHANGED <<tool, eoNumber, index, fullDoc, failure, payload, notTools>>

NoRawText_UndefinedOnly(doc) == Get(doc, RAW_TEXT_URL) = Undefined
\* if (!fullDoc.raw_text_url)
NoRawText(doc) == Falsy(Get(doc, RAW_TEXT_URL))

\* getDocument resolves: without a raw_text_url the partial result is
\* returned, otherwise the function runs up to await fetchDocumentText(...).
DocumentResolves(rawTextUrl) ==
    /\ epc = "document"
    /\ LET doc == DocumentOf(eo[1], rawTextUrl)
       IN  /\ fullDoc' = Some(doc)
           /\ IF NoRawText(doc)
              THEN /\ lookup' = Some(PartialResult(eoNumber, doc))
                   /\ epc' = "resolved"
                   /\ UNCHANGED sent
              ELSE /\ sent' = Append(sent, TextRequest(doc))
                   /\ epc' = "text"
                   /\ UNCHANGED lookup
    /\ UNCHANGED <<tool, eoNumber, index, page1, eo, failure, payload, notTools>>

\* fetchDocumentText resolves: the full result is returned.
TextResolves(fullText) ==
    /\ epc = "text"
    /\ lookup' = Some(FullResult(eoNumber, fullDoc[1], fullText))
    /\ epc' = "resolved"
    /\ UNCHANGED <<tool, eoNumber, index, sent, page1, eo, fullDoc, failure, payload, notTools>>

\* The awaited request fails: nothing catches the error, the function
\* the tool handler awaits rejects with it.
RequestFails(err) ==
    /\ epc \in {"search", "document", "text"}
    /\ err \in (IF epc = "text" THEN TextErrors ELSE RequestErrors)
    /\ failure' = Some(err)
    /\ epc' = "rejected"
    /\ UNCHANGED <<tool, eoNumber, index, sent, page1, eo, fullDoc, lookup, payload, notTools>>

ResultMissing_Never(value) == FALSE
\* if (!result)
ResultMissing(value) == Falsy(value)

\* The handler after its await: the not-found text or the JSON text.
ToolReturns ==
    /\ epc = "resolved"
    /\ payload' = Some(IF ResultMissing(lookup[1]) THEN NotFoundText(eoNumber)
                       ELSE JsonStringify(lookup[1]))
    /\ epc' = "replied"
    /\ UNCHANGED <<tool, eoNumber, index, sent, page1, eo, fullDoc, lookup, failure, notTools>>

\* The handler's await throws: the handler has no catch and rejects.
ToolThrows ==
    /\ epc = "rejected"
    /\ epc' = "error"
    /\ UNCHANGED <<tool, eoNumber, index, sent, page1, eo, fullDoc, lookup, failure, payload, notTools>>

NextTools ==
    \/ CallTool
    \/ \E results \in SearchPages(index) : SearchResolves(results)
    \/ \E rawTextUrl \in RawTextUrls : DocumentResolves(rawTextUrl)
    \/ \E fullText \in Texts : TextResolves(fullText)
    \/ \E err \in RequestErrors \cup TextErrors : RequestFails(err)
    \/ ToolReturns
    \/ ToolThrows

SpecTools == InitTools /\ [][NextTools]_vars

(***************************************************************************)
(* Reading a query string back: its pairs, percent-decoded.                *)
(***************************************************************************)
\* The index of the first c in s, 0 when there is none.
FirstIndex(s, c) ==
    IF \E i \in 1 .. Len(s) : s[i] = c
    THEN CHOOSE i \in 1 .. Len(s) : s[i] = c /\ \A j \in 1 .. i - 1 : s[j] # c
    ELSE 0

RECURSIVE Pieces(_, _)
Pieces(s, c) ==
    IF FirstIndex(s, c) = 0 THEN <<s>>
    ELSE <<SubSeq(s, 1, FirstIndex(s, c) - 1)>> \o Pieces(SubSeq(s, FirstIndex(s, c) + 1, Len(s)), c)

\* The parts of a query string; the empty string has none.
Split(s, c) == IF s = <<>> THEN <<>> ELSE Pieces(s, c)

\* The characters encodeURIComponent escapes, among printable ASCII: the
\* URI reserved characters ; / ? : @ & = + $ , and # [ ] with the space, the
\* percent sign and the remaining punctuation.  The marks - _ . ! ~ * ' ( )
\* are not among them.
EscapedChars == {" ", "\"", "#", "$", "%", "&", "+", ",", "/", ":", ";", "<", "=", ">", "?", "@", "[", "\\", "]", "^", "{", "|", "}"}

Unescape(h) ==
    CASE h = <<"2", "0">> -> " "
      [] h = <<"2", "2">> -> "\""
      [] h = <<"2", "3">> -> "#"
      [] h = <<"2", "4">> -> "$"
      [] h = <<"2", "5">> -> "%"
      [] h = <<"2", "6">> -> "&"
      [] h = <<"2", "B">> -> "+"
      [] h = <<"2", "C">> -> ","
      [] h = <<"2", "F">> -> "/"
      [] h = <<"3", "A">> -> ":"
      [] h = <<"3", "B">> -> ";"
      [] h = <<"3", "C">> -> "<"
      [] h = <<"3", "D">> -> "="
      [] h = <<"3", "E">> -> ">"
      [] h = <<"3", "F">> -> "?"
      [] h = <<"4", "0">> -> "@"
      [] h = <<"5", "B">> -> "["
      [] h = <<"5", "C">> -> "\\"
      [] h = <<"5", "D">> -> "]"
      [] h = <<"5", "E">> -> "^"
      [] h = <<"7", "B">> -> "{"
      [] h = <<"7", "C">> -> "|"
      [] h = <<"7", "D">> -> "}"
      [] OTHER -> ""

RECURSIVE PercentDecode(_)
\* decodeURIComponent; a "%" that starts no escape of the table is kept.
PercentDecode(s) ==
    IF s = <<>> THEN <<>>
    ELSE IF Head(s) = "%" /\ Len(s) >= 3 /\ Unescape(<<s[2], s[3]>>) # ""
    THEN <<Unescape(<<s[2], s[3]>>)>> \o PercentDecode(SubSeq(s, 4, Len(s)))
    ELSE <<Head(s)>> \o PercentDecode(Tail(s))

KeyPart(piece) == SubSeq(piece, 1, FirstIndex(piece, "=") - 1)
ValuePart(piece) == SubSeq(piece, FirstIndex(piece, "=") + 1, Len(piece))

\* The <<key, value>> pairs of a query string, decoded, in order.
DecodedPairs(s) ==
    [i \in 1 .. Len(Split(s, "&")) |->
        <<PercentDecode(KeyPart(Split(s, "&")[i])), PercentDecode(ValuePart(Split(s, "&")[i]))>>]

HasPrefix(s, prefix) == Len(s) >= Len(prefix) /\ SubSeq(s, 1, Len(prefix)) = prefix

RECURSIVE Sum(_)
Sum(ns) == IF ns = <<>> THEN 0 ELSE Head(ns) + Sum(Tail(ns))

\* The number of present leaf values of one condition.
PresentIn(value) ==
    IF value.t \in {"object", "array"}
    THEN Cardinality({j \in 1 .. Len(value.e) : Present(value.e[j][2])})
    ELSE IF Present(value) THEN 1 ELSE 0

\* The number of values of p that are to be sent.
ValuesToSend(p) ==
    (IF p.conditions = None THEN 0
     ELSE Sum([i \in 1 .. Len(p.conditions[1]) |-> PresentIn(p.conditions[1][i][2])]))
    + (IF p.fields = None THEN 0 ELSE Len(p.fields[1]))
    + Cardinality({o \in {p.per_page, p.page} : o # None /\ o # Some(0)})
    + (IF p.order \in {None, Some(<<>>)} THEN 0 ELSE 1)
    + (IF p.format \in {None, Some(<<>>)} THEN 0 ELSE 1)

\* C8: buildQueryString({conditions: {president: "joe-biden"}, per_page: 50})
\* is exactly conditions[president]=joe-biden&per_page=50.
C8_LiteralBrackets ==
    (qpc = "built" /\ params = ExampleParams) =>
        qs = <<"c", "o", "n", "d", "i", "t", "i", "o", "n", "s", "[", "p", "r", "e", "s", "i", "d", "e", "n", "t", "]", "=", "j", "o", "e", "-", "b", "i", "d", "e", "n", "&", "p", "e", "r", "_", "p", "a", "g", "e", "=", "5", "0">>

\* C8, as the code has it: the brackets of the key are escaped; the pairs,
\* decoded, are president=joe-biden under conditions[president], then per_page=50.
C8_EscapedBrackets ==
    (qpc = "built" /\ params = ExampleParams) =>
        /\ qs = <<"c", "o", "n", "d", "i", "t", "i", "o", "n", "s", "%", "5", "B", "p", "r", "e", "s", "i", "d", "e", "n", "t", "%", "5", "D", "=", "j", "o", "e", "-", "b", "i", "d", "e", "n", "&", "p", "e", "r", "_", "p", "a", "g", "e", "=", "5", "0">>
        /\ DecodedPairs(qs) = << <<<<"c", "o", "n", "d", "i", "t", "i", "o", "n", "s", "[", "p", "r", "e", "s", "i", "d", "e", "n", "t", "]">>, <<"j", "o", "e", "-", "b", "i", "d", "e", "n">>>>, <<<<"p", "e", "r", "_", "p", "a", "g", "e">>, <<"5", "0">>>> >>

ExpectedNested(k, entries) ==
    LET present == SelectSeq(entries, LAMBDA en : Present(en[2]))
    IN  [j \in 1 .. Len(present) |->
            <<<<"c", "o", "n", "d", "i", "t", "i", "o", "n", "s">> \o <<"[">> \o k \o <<"]", "[">> \o present[j][1] \o <<"]">>,
              StringOf(present[j][2])>>]

\* C10: for every condition k that is a nested mapping, the pairs of the
\* output whose key is conditions[k][...] are exactly one
\* conditions[k][sub]=v pair per sub-key whose value is present, in the
\* mapping's iteration order, with no pair for an undefined or null sub-key.
C10_NestedPairs ==
    (qpc = "built" /\ params.conditions # None) =>
        \A i \in 1 .. Len(params.conditions[1]) :
            LET k == params.conditions[1][i][1]
                v == params.conditions[1][i][2]
            IN  v.t = "object" =>
                    SelectSeq(DecodedPairs(qs),
                              LAMBDA pr : HasPrefix(pr[1], <<"c", "o", "n", "d", "i", "t", "i", "o", "n", "s">> \o <<"[">> \o k \o <<"]", "[">>))
                        = ExpectedNested(k, v.e)

C10_Witness ==
    /\ qpc = "built"
    /\ params.conditions =
           Some(<< <<TypeKey, Obj(<< <<<<"g", "t", "e">>, Str(PlainText)>> >>)>>,
                   <<RichKey, Obj(<< <<<<"l", "t", "e">>, Null>>, <<<<"g", "t", "e">>, Str(PlainText)>> >>)>> >>)
    /\ params.per_page = None
    /\ qs = <<"c", "o", "n", "d", "i", "t", "i", "o", "n", "s", "%", "5", "B", "t", "y", "p", "e", "%", "5", "D", "%", "5", "B", "g", "t", "e", "%", "5", "D", "=", "v", "1", "&", "c", "o", "n", "d", "i", "t", "i", "o", "n", "s", "%", "5", "B", "k", "%", "5", "D", "%", "5", "B", "g", "t", "e", "%", "5", "D", "=", "v", "1">>

\* The pairs conditions[k][]=v that the elements of the sequence-valued
\* condition k call for: one per present element, in order.
ExpectedItems(k, items) ==
    LET present == SelectSeq(items, LAMBDA it : Present(it[2]))
    IN  [j \in 1 .. Len(present) |->
            <<<<"c", "o", "n", "d", "i", "t", "i", "o", "n", "s">> \o <<"[">> \o k \o <<"]", "[", "]">>, StringOf(present[j][2])>>]

\* C11: for every condition k whose value is a sequence of N scalars, the
\* pairs of the output whose key is conditions[k][] are exactly N, one per
\* element and in the order of the sequence (none for N = 0); a null
\* element is no scalar and has no pair.
C11_SequencePairs ==
    (qpc = "built" /\ params.conditions # None) =>
        \A i \in 1 .. Len(params.conditions[1]) :
            LET k == params.conditions[1][i][1]
                v == params.conditions[1][i][2]
                got == SelectSeq(DecodedPairs(qs),
                                 LAMBDA pr : pr[1] = <<"c", "o", "n", "d", "i", "t", "i", "o", "n", "s">> \o <<"[">> \o k \o <<"]", "[", "]">>)
            IN  v.t = "array" =>
                    /\ got = ExpectedItems(k, v.e)
                    /\ (\A j \in 1 .. Len(v.e) : Present(v.e[j][2])) => Len(got) = Len(v.e)

C11_Witness ==
    /\ qpc = "built"
    /\ params.conditions = Some(<< <<RichKey, Arr(<<Str(PlainText), Str(ReservedText)>>)>> >>)
    /\ params.per_page = None
    /\ qs = <<"c", "o", "n", "d", "i", "t", "i", "o", "n", "s", "%", "5", "B", "k", "%", "5", "D", "%", "5", "B", "%", "5", "D", "=", "v", "1", "&", "c", "o", "n", "d", "i", "t", "i", "o", "n", "s", "%", "5", "B", "k", "%", "5", "D", "%", "5", "B", "%", "5", "D", "=", "a", "%", "2", "6", "b", "%", "3", "D", "%", "5", "B", "c", "%", "5", "D", "%", "2", "0", "!">>

\* The parts of the output that end in "=": pairs with an empty value.
EmptyValued(s) == {i \in 1 .. Len(Split(s, "&")) : ValuePart(Split(s, "&")[i]) = <<>>}

\* C12, as stated: buildQueryString completes without error for every
\* input and no pair of its output has an empty value, also when a
\* condition value is null or the empty string.
C12_NoEmptyValue ==
    qpc \in {"built", "threw", "requested"} =>
        /\ qpc # "threw"
        /\ EmptyValued(qs) = {}

\* The number of values of p to send whose string form is empty.
EmptyIn(value) ==
    IF value.t \in {"object", "array"}
    THEN Cardinality({j \in 1 .. Len(value.e) :
                         Present(value.e[j][2]) /\ StringOf(value.e[j][2]) = <<>>})
    ELSE IF Present(value) /\ StringOf(value) = <<>> THEN 1 ELSE 0

EmptyToSend(p) ==
    (IF p.conditions = None THEN 0
     ELSE Sum([i \in 1 .. Len(p.conditions[1]) |-> EmptyIn(p.conditions[1][i][2])]))
    + (IF p.fields = None THEN 0
       ELSE Cardinality({i \in 1 .. Len(p.fields[1]) : p.fields[1][i] = <<>>}))

\* Some string that p gives to encodeURIComponent holds a lone surrogate.
HoldsLoneSurrogate(p) ==
    /\ p.conditions # None
    /\ \E i \in 1 .. Len(p.conditions[1]) :
           LET v == p.conditions[1][i][2]
           IN  \/ v.t = "string" /\ Count(v.s, LoneSurrogate) > 0
               \/ \E j \in 1 .. Len(v.e) :
                      v.e[j][2].t = "string" /\ Count(v.e[j][2].s, LoneSurrogate) > 0

\* C12, amended: every undefined or null value is omitted entirely, a null
\* condition value included; the function fails only with the URIError of
\* a lone surrogate; a pair has an empty value exactly when the value sent
\* is the empty string, so there is one key= pair for each such value and
\* none for a null or undefined one.
C12_NullOmittedEmptyKept ==
    /\ qpc = "threw" => HoldsLoneSurrogate(params)
    /\ qpc = "built" =>
           /\ ~HoldsLoneSurrogate(params)
           /\ Len(Split(qs, "&")) = ValuesToSend(params)
           /\ Cardinality(EmptyValued(qs)) = EmptyToSend(params)

C12_Witness ==
    /\ qpc = "built"
    /\ params.conditions = Some(<< <<TypeKey, Null>>, <<RichKey, Str(<<>>)>> >>)
    /\ params.per_page = None
    /\ qs = <<"c", "o", "n", "d", "i", "t", "i", "o", "n", "s", "%", "5", "B", "k", "%", "5", "D", "=">>

IsListKey(key) == HasPrefix(key, <<"c", "o", "n", "d", "i", "t", "i", "o", "n", "s">> \o <<"[">>) \/ key = <<"f", "i", "e", "l", "d", "s", "[", "]">>

\* The top-level pairs that the paging and sort values of p call for.
ExpectedPaging(p) ==
    (IF p.per_page \in {None, Some(0)} THEN <<>> ELSE << <<<<"p", "e", "r", "_", "p", "a", "g", "e">>, ToDecimal(p.per_page[1])>> >>)
    \o (IF p.page \in {None, Some(0)} THEN <<>> ELSE << <<<<"p", "a", "g", "e">>, ToDecimal(p.page[1])>> >>)
    \o (IF p.order \in {None, Some(<<>>)} THEN <<>> ELSE << <<<<"o", "r", "d", "e", "r">>, p.order[1]>> >>)
    \o (IF p.format \in {None, Some(<<>>)} THEN <<>> ELSE << <<<<"f", "o", "r", "m", "a", "t">>, p.format[1]>> >>)

\* C13: per_page, page, order and format are each one top-level key=value
\* pair if and only if present, non-zero and non-empty; these pairs come
\* after all condition pairs and all fields[] pairs, in the order per_page,
\* page, order, format.
C13_PagingLast ==
    qpc = "built" =>
        LET pairs == DecodedPairs(qs)
            n == Len(pairs) - Len(ExpectedPaging(params))
        IN  /\ n >= 0
            /\ SubSeq(pairs, n + 1, Len(pairs)) = ExpectedPaging(params)
            /\ \A i \in 1 .. n : IsListKey(pairs[i][1])
            /\ \A i, j \in 1 .. n :
                   (pairs[i][1] = <<"f", "i", "e", "l", "d", "s", "[", "]">> /\ pairs[j][1] # <<"f", "i", "e", "l", "d", "s", "[", "]">>) => j < i

C13_Witness ==
    /\ qpc = "built"
    /\ params.conditions # None
    /\ params.fields = Some(<<<<"t", "i", "t", "l", "e">>, <<"a", "[", "]">>>>)
    /\ params.page = Some(2)
    /\ qs = <<"c", "o", "n", "d", "i", "t", "i", "o", "n", "s", "%", "5", "B", "k", "%", "5", "D", "=", "v", "1", "&", "f", "i", "e", "l", "d", "s", "%", "5", "B", "%", "5", "D", "=", "t", "i", "t", "l", "e", "&", "f", "i", "e", "l", "d", "s", "%", "5", "B", "%", "5", "D", "=", "a", "%", "5", "B", "%", "5", "D", "&", "p", "e", "r", "_", "p", "a", "g", "e", "=", "5", "0", "&", "p", "a", "g", "e", "=", "2", "&", "o", "r", "d", "e", "r", "=", "n", "e", "w", "e", "s", "t", "&", "f", "o", "r", "m", "a", "t", "=", "j", "s", "o", "n">>

ContainsSeq(s, sub) ==
    \E i \in 0 .. Len(s) - Len(sub) : SubSeq(s, i + 1, i + Len(sub)) = sub

\* C14: when no parameter yields a pair buildQueryString returns the empty
\* string and makeRequest asks for the bare endpoint URL, without "?"; a
\* "?" is there exactly when the query string is not empty; getDocument
\* with a null or empty field list asks for a URL without any fields[] pair.
C14_BareUrl ==
    /\ (qpc \in {"built", "requested"} /\ ValuesToSend(params) = 0) => qs = <<>>
    /\ qpc = "requested" =>
           /\ qs = <<>> => url = Some(BASE_URL \o endpoint)
           /\ Count(url[1], "?") = (IF qs = <<>> THEN 0 ELSE 1)
           /\ (docFields \in {None, Some(<<>>)} /\ endpoint # SearchEndpoint) =>
                  /\ url = Some(<<"h", "t", "t", "p", "s", ":", "/", "/", "w", "w", "w", ".", "f", "e", "d", "e", "r", "a", "l", "r", "e", "g", "i", "s", "t", "e", "r", ".", "g", "o", "v", "/", "a", "p", "i", "/", "v", "1", "/", "d", "o", "c", "u", "m", "e", "n", "t", "s", "/", "2", "0", "2", "4", "-", "0", "2", "1", "5", "4", ".", "j", "s", "o", "n">>)
                  /\ ~ContainsSeq(url[1], <<"f", "i", "e", "l", "d", "s">>)

C14_Witness ==
    /\ qpc = "requested"
    /\ docFields = Some(<<>>)
    /\ endpoint = DocumentEndpoint(DocumentNumber)
    /\ url = Some(<<"h", "t", "t", "p", "s", ":", "/", "/", "w", "w", "w", ".", "f", "e", "d", "e", "r", "a", "l", "r", "e", "g", "i", "s", "t", "e", "r", ".", "g", "o", "v", "/", "a", "p", "i", "/", "v", "1", "/", "d", "o", "c", "u", "m", "e", "n", "t", "s", "/", "2", "0", "2", "4", "-", "0", "2", "1", "5", "4", ".", "j", "s", "o", "n">>)

\* A call of makeRequest, fetchDocumentText or fetchDocumentHtml is over.
CallOver == qpc \in {"returned", "failed", "threw"}

NotSuccess(r) == r.status < 200 \/ r.status > 299

\* What holds of a call that got a response with a non-success status: it
\* failed with an error whose message holds the status code, and the body
\* of the response was never read.
FailsWithStatus ==
    (response # None /\ NotSuccess(response[1])) =>
        /\ qpc = "failed"
        /\ outcome # None
        /\ outcome[1].t = "error"
        /\ ContainsSeq(outcome[1].s, ToDecimal(response[1].status))
        /\ ~bodyRead

\* C19, as stated: every call of makeRequest, fetchDocumentText and
\* fetchDocumentHtml issues exactly one HTTP request, and on a non-success
\* status fails with the status code, the body unparsed, without a retry.
C19_ExactlyOneRequest ==
    /\ Len(requests) <= 1
    /\ CallOver => Len(requests) = 1
    /\ FailsWithStatus

\* C19, amended: no call issues more than one HTTP request, whatever the
\* response (no retry); a call that is over has issued exactly one, except
\* a makeRequest whose buildQueryString threw, which has issued none; on a
\* non-success status the call fails with an error that carries the status
\* code and the body is not read; the body of a success response is read.
C19_OneRequestUnlessThrown ==
    /\ Len(requests) <= 1
    /\ CallOver => (Len(requests) = 1 <=> qpc # "threw")
    /\ qpc = "threw" => (HoldsLoneSurrogate(params) /\ response = None /\ outcome = Some(Thrown(<<URIError>>)))
    /\ FailsWithStatus
    /\ (response # None /\ ~NotSuccess(response[1])) => bodyRead
    /\ response # None => (CallOver /\ Len(requests) = 1)

C19_Witness ==
    /\ qpc = "failed"
    /\ Len(requests) = 1
    /\ requests[1] = RawTextUrl
    /\ response # None
    /\ response[1].status = 404
    /\ ~bodyRead
    /\ outcome = Some(Thrown(TextError(response[1])))

(***************************************************************************)
(* What the histories of a tool call say.                                  *)
(***************************************************************************)
\* The records of a results value; none when it is missing.
RecordsOf(results) ==
    IF results.t = "array" THEN [i \in 1 .. Len(results.e) |-> results.e[i][2]] ELSE <<>>

\* A record's executive_order_number equals n numerically: it is the
\* number n or a decimal string of n; null and the empty string count as 0.
NumericallyEqual(value, n) ==
    \/ value.t = "number" /\ value.n = n
    \/ value.t = "string" /\ value.s = ToDecimal(n)
    \/ n = 0 /\ (value.t = "null" \/ (value.t = "string" /\ value.s = <<>>))

\* The positions in recs of the records numbered n.
Hits(recs, n) ==
    {i \in 1 .. Len(recs) : \E j \in 1 .. Len(recs[i].e) :
        recs[i].e[j][1] = EXECUTIVE_ORDER_NUMBER /\ NumericallyEqual(recs[i].e[j][2], n)}

Lowest(S) == CHOOSE i \in S : \A j \in S : i <= j

\* What getExecutiveOrderByNumber resolved with, once its search has:
\* the tool's lookup itself, or the eo of getExecutiveOrderFullText
\* (null when that function returned at once).
ByNumberResult ==
    IF tool = GET_EXECUTIVE_ORDER THEN lookup[1]
    ELSE IF eo # None THEN eo[1] ELSE Null

NumbersOf(recs) == [i \in 1 .. Len(recs) |-> Get(recs[i], EXECUTIVE_ORDER_NUMBER)]

\* C15: getExecutiveOrderByNumber(n) returns the first record of the
\* search response whose executive_order_number equals n numerically, and
\* null, without failing, when no record of the response has that number
\* or the response has no results; with records numbered [10, 22, 31] it
\* returns the record 22 for n = 22 and null for n = 99.
C15_FirstNumericMatch ==
    page1 # None =>
        LET recs == RecordsOf(page1[1])
            hits == Hits(recs, eoNumber)
        IN  /\ hits # {} => ByNumberResult = recs[Lowest(hits)]
            /\ hits = {} => (ByNumberResult = Null /\ lookup = Some(Null) /\ failure = None)
            /\ NumbersOf(recs) = <<Num(10), Num(22), Num(31)>> =>
                   /\ eoNumber = 22 => ByNumberResult = recs[2]
                   /\ eoNumber = 99 => ByNumberResult = Null

C15_Witness ==
    /\ tool = GET_EXECUTIVE_ORDER
    /\ epc = "resolved"
    /\ eoNumber = 22
    /\ NumbersOf(RecordsOf(page1[1])) = <<Num(10), Num(22), Num(31)>>
    /\ lookup = Some(RecordOf(2, Num(22)))

\* The query part of a URL.
QueryOf(u) == IF FirstIndex(u, "?") = 0 THEN <<>> ELSE SubSeq(u, FirstIndex(u, "?") + 1, Len(u))

SearchesSent == SelectSeq(sent, LAMBDA rq : rq.kind = "search")

\* C16: getExecutiveOrderByNumber issues exactly one search request per
\* call, for one page of 100 records and with no page parameter, whatever
\* the response; when the upstream index holds a record with the requested
\* number and the page returned holds none, the call returns null and
\* raises no error.
C16_SingleSearch ==
    /\ epc # "tool" => (Len(SearchesSent) = 1 /\ sent[1].kind = "search")
    /\ epc = "search" =>
           LET pairs == DecodedPairs(QueryOf(sent[1].url))
           IN  /\ HasPrefix(sent[1].url, BASE_URL \o SearchEndpoint \o <<"?">>)
               /\ Len(SelectSeq(pairs, LAMBDA pr : pr = <<<<"p", "e", "r", "_", "p", "a", "g", "e">>, <<"1", "0", "0">>>>)) = 1
               /\ Len(SelectSeq(pairs, LAMBDA pr : pr[1] \in {<<"p", "e", "r", "_", "p", "a", "g", "e">>, <<"p", "a", "g", "e">>})) = 1
               /\ Len(SelectSeq(pairs, LAMBDA pr : pr = <<<<"c", "o", "n", "d", "i", "t", "i", "o", "n", "s", "[", "t", "e", "r", "m", "]">>, ToDecimal(eoNumber)>>)) = 1
    /\ (page1 # None /\ Hits(index, eoNumber) # {} /\ Hits(RecordsOf(page1[1]), eoNumber) = {}) =>
           /\ ByNumberResult = Null
           /\ failure = None
           /\ epc \in {"resolved", "replied"}
           /\ Len(sent) = 1

C16_Witness ==
    /\ epc = "resolved"
    /\ eoNumber = 22
    /\ Hits(index, eoNumber) # {}
    /\ page1 # None
    /\ page1[1].t = "array"
    /\ Len(page1[1].e) = 2
    /\ Hits(RecordsOf(page1[1]), eoNumber) = {}
    /\ lookup = Some(Null)
    /\ Len(sent) = 1

KindsSent == [i \in 1 .. Len(sent) |-> sent[i].kind]

\* C17: getExecutiveOrderFullText issues its requests in the order search,
\* document fetch, raw-text fetch, each only after the one before succeeded
\* with a usable result: a miss returns null after the search alone; a
\* failed search or document fetch fails the call with no later request; a
\* failed raw-text fetch fails the call and no result is returned.
C17_RequestOrder ==
    tool = GET_EXECUTIVE_ORDER_FULL_TEXT =>
        /\ KindsSent = SubSeq(<<"search", "document", "text">>, 1, Len(sent))
        /\ Len(sent) >= 2 =>
               /\ page1 # None
               /\ Hits(RecordsOf(page1[1]), eoNumber) # {}
               /\ eo = Some(RecordsOf(page1[1])[Lowest(Hits(RecordsOf(page1[1]), eoNumber))])
               /\ ContainsSeq(sent[2].url, <<"/">> \o Get(eo[1], DOCUMENT_NUMBER).s \o <<".", "j", "s", "o", "n">>)
        /\ Len(sent) = 3 =>
               /\ fullDoc # None
               /\ Get(fullDoc[1], RAW_TEXT_URL).t = "string"
               /\ sent[3].url = Get(fullDoc[1], RAW_TEXT_URL).s
               /\ sent[3].url # <<>>
        /\ (page1 # None /\ Hits(RecordsOf(page1[1]), eoNumber) = {}) =>
               /\ lookup = Some(Null)
               /\ failure = None
               /\ Len(sent) = 1
        /\ failure # None =>
               /\ lookup = None
               /\ epc \in {"rejected", "error"}
               /\ Len(sent) = (IF page1 = None THEN 1 ELSE IF fullDoc = None THEN 2 ELSE 3)
        /\ lookup # None => failure = None

C17_Witness ==
    /\ tool = GET_EXECUTIVE_ORDER_FULL_TEXT
    /\ epc = "rejected"
    /\ KindsSent = <<"search", "document", "text">>
    /\ failure = Some(TextError(NotFoundResponse))
    /\ lookup = None

\* The document record has no raw_text_url: the property is missing,
\* null or empty.
LacksRawText(doc) ==
    \A j \in 1 .. Len(doc.e) :
        doc.e[j][1] = RAW_TEXT_URL => (doc.e[j][2].t \in {"null", "undefined"} \/ doc.e[j][2] = Str(<<>>))

\* C18: when the executive order is found and its document record has no
\* raw_text_url, getExecutiveOrderFullText completes successfully with a
\* result whose full_text is null and whose error is an explanatory note,
\* and issues no raw-text fetch; in every result of the function full_text
\* is null if and only if the error note is present.
C18_PartialResult ==
    tool = GET_EXECUTIVE_ORDER_FULL_TEXT =>
        /\ (fullDoc # None /\ LacksRawText(fullDoc[1])) =>
               /\ failure = None
               /\ lookup # None
               /\ lookup[1].t = "object"
               /\ Get(lookup[1], FULL_TEXT) = Null
               /\ Get(lookup[1], ERROR).t = "string"
               /\ Get(lookup[1], ERROR).s # <<>>
               /\ KindsSent = <<"search", "document">>
        /\ (lookup # None /\ lookup[1] # Null) =>
               /\ Get(lookup[1], FULL_TEXT).t \in {"null", "string"}
               /\ Get(lookup[1], FULL_TEXT) = Null <=> Get(lookup[1], ERROR) # Undefined
               /\ Get(lookup[1], FULL_TEXT) # Null => KindsSent = <<"search", "document", "text">>

C18_Witness ==
    /\ tool = GET_EXECUTIVE_ORDER_FULL_TEXT
    /\ epc = "resolved"
    /\ fullDoc # None
    /\ Get(fullDoc[1], RAW_TEXT_URL) = Null
    /\ Get(lookup[1], FULL_TEXT) = Null
    /\ Get(lookup[1], ERROR) = Str(NOT_AVAILABLE)
    /\ Len(sent) = 2

\* C20: the tools get_executive_order and get_executive_order_full_text
\* return the text 'Executive order N not found.' as a normal result
\* exactly when the lookup returned null, and the JSON text of the record
\* otherwise; a miss never ends in a protocol-level error.
C20_NotFoundPayload ==
    /\ epc = "replied" =>
           /\ lookup # None
           /\ payload # None
           /\ payload[1] = <<"E", "x", "e", "c", "u", "t", "i", "v", "e", " ", "o", "r", "d", "e", "r", " ">> \o ToDecimal(eoNumber) \o <<" ", "n", "o", "t", " ", "f", "o", "u", "n", "d", ".">> <=> lookup = Some(Null)
           /\ lookup # Some(Null) =>
                  /\ payload[1] = JsonStringify(lookup[1])
                  /\ HasPrefix(payload[1], <<"{", "\n", " ", " ", "\"">> \o EXECUTIVE_ORDER_NUMBER \o <<"\"", ":", " ">>)
                     \/ HasPrefix(payload[1], <<"{", "\n", " ", " ", "\"">> \o DOCUMENT_NUMBER \o <<"\"", ":", " ">>)
                  /\ payload[1][Len(payload[1])] = "}"
    /\ epc = "error" => (failure # None /\ lookup = None /\ payload = None)
    /\ lookup = Some(Null) => (failure = None /\ epc \in {"resolved", "replied"})
    /\ payload # None => epc = "replied"

C20_Witness ==
    /\ tool = GET_EXECUTIVE_ORDER_FULL_TEXT
    /\ epc = "replied"
    /\ eoNumber = 99
    /\ Len(index) = 3
    /\ lookup = Some(Null)
    /\ payload = Some(<<"E", "x", "e", "c", "u", "t", "i", "v", "e", " ", "o", "r", "d", "e", "r", " ", "9", "9", " ", "n", "o", "t", " ", "f", "o", "u", "n", "d", ".">>)

(***************************************************************************)
(* The search operations: what each gives to searchDocuments.              *)
(***************************************************************************)
MinutesPerDay == 1440

\* Day(t) of the Date object: the day number of an instant or of a
\* local time, counted from 1970-01-01.
DayOf(t) == t \div MinutesPerDay
TimeInDay(t) == t % MinutesPerDay

\* MakeDay(year, month, date): the day number of a calendar date, also for
\* a date that is not within the month.
MakeDay(y, m, d) ==
    LET yy == IF m <= 2 THEN y - 1 ELSE y
        era == yy \div 400
        yoe == yy - era * 400
        mp == IF m > 2 THEN m - 3 ELSE m + 9
        doy == (153 * mp + 2) \div 5
        doe == yoe * 365 + yoe \div 4 - yoe \div 100 + doy
    IN  era * 146097 + doe - 719468 + (d - 1)

\* YearFromTime, MonthFromTime and DateFromTime of a day number.
CivilOf(day) ==
    LET z == day + 719468
        era == z \div 146097
        doe == z - era * 146097
        yoe == (doe - doe \div 1460 + doe \div 36524 - doe \div 146096) \div 365
        doy == doe - (365 * yoe + yoe \div 4 - yoe \div 100)
        mp == (5 * doy + 2) \div 153
        d == doy - (153 * mp + 2) \div 5 + 1
        m == IF mp < 10 THEN mp + 3 ELSE mp - 9
    IN  <<(IF m <= 2 THEN yoe + era * 400 + 1 ELSE yoe + era * 400), m, d>>

\* The time zones of the process: UTC, one west and one east of it with
\* daylight saving time, and one without.
UTC == "UTC"
NEW_YORK == "America/New_York"
BERLIN == "Europe/Berlin"
TOKYO == "Asia/Tokyo"
Zones == {UTC, NEW_YORK, BERLIN, TOKYO}

StandardOffset(z) ==
    CASE z = NEW_YORK -> -300
      [] z = BERLIN -> 60
      [] z = TOKYO -> 540
      [] OTHER -> 0

\* The instants of 2024 between which the zone is one hour ahead of its
\* standard time.
SummerTime(z) ==
    CASE z = NEW_YORK -> <<MakeDay(2024, 3, 10) * MinutesPerDay + 420, MakeDay(2024, 11, 3) * MinutesPerDay + 360>>
      [] z = BERLIN -> <<MakeDay(2024, 3, 31) * MinutesPerDay + 60, MakeDay(2024, 10, 27) * MinutesPerDay + 60>>
      [] OTHER -> <<0, 0>>

\* The offset of local time from UTC at the instant t.
OffsetAt(z, t) ==
    IF SummerTime(z)[1] <= t /\ t < SummerTime(z)[2]
    THEN StandardOffset(z) + 60
    ELSE StandardOffset(z)

\* LocalTime(t) and UTC(local): the second takes the offset in force at
\* the local time (a local time of the hour a transition skips or
\* repeats is not among the inputs).
LocalTime(z, t) == t + OffsetAt(z, t)
UtcOf(z, local) ==
    IF OffsetAt(z, local - StandardOffset(z)) = StandardOffset(z)
    THEN local - StandardOffset(z)
    ELSE local - StandardOffset(z) - 60

\* thirtyDaysAgo.getDate()
GetDate(z, t) == CivilOf(DayOf(LocalTime(z, t)))[3]

\* thirtyDaysAgo.setDate(date): the day of the month of the local time is
\* replaced, its time of day kept, and the result taken back to UTC.
SetDate(z, t, date) ==
    LET local == LocalTime(z, t)
        civil == CivilOf(DayOf(local))
    IN  UtcOf(z, MakeDay(civil[1], civil[2], date) * MinutesPerDay + TimeInDay(local))

Pad(digits, width) ==
    [i \in 1 .. (width - Len(digits)) |-> "0"] \o digits

\* toISOString().split('T')[0]: the UTC calendar date of the instant, for
\* the years 0 to 9999.
IsoDate(t) ==
    LET civil == CivilOf(DayOf(t))
    IN  Pad(ToDecimal(civil[1]), 4) \o <<"-">> \o Pad(ToDecimal(civil[2]), 2)
        \o <<"-">> \o Pad(ToDecimal(civil[3]), 2)

\* The instants of the calls: three times of day on each day of a range
\* that holds the end of a year, a leap day and the start of summer time.
FirstDay == MakeDay(2023, 12, 30)
LastDay == MakeDay(2024, 4, 12)
TimesOfDay == {30, 720, 1410}
Clocks == {day * MinutesPerDay + time : day \in FirstDay .. LastDay, time \in TimesOfDay}

\* options.x as a condition: the value must be truthy.
TruthyString(opt) == opt # None /\ opt[1] # <<>>
TruthyNumber(opt) == opt # None /\ opt[1] # 0

\* The options of searchExecutiveOrders.
NoOptions ==
    [president |-> None, year |-> None, term |-> None, signingDateGte |-> None,
     signingDateLte |-> None, fields |-> None, per_page |-> None, page |-> None]

\* defaultFields of searchExecutiveOrders
SearchFields ==
    <<<<"d", "o", "c", "u", "m", "e", "n", "t", "_", "n", "u", "m", "b", "e", "r">>,
      <<"e", "x", "e", "c", "u", "t", "i", "v", "e", "_", "o", "r", "d", "e", "r", "_", "n", "u", "m", "b", "e", "r">>,
      <<"t", "i", "t", "l", "e">>,
      <<"s", "i", "g", "n", "i", "n", "g", "_", "d", "a", "t", "e">>,
      <<"p", "u", "b", "l", "i", "c", "a", "t", "i", "o", "n", "_", "d", "a", "t", "e">>,
      <<"p", "r", "e", "s", "i", "d", "e", "n", "t">>,
      <<"h", "t", "m", "l", "_", "u", "r", "l">>,
      <<"p", "d", "f", "_", "u", "r", "l">>,
      <<"j", "s", "o", "n", "_", "u", "r", "l">>>>

\* options.per_page || 100
SearchPerPageDefault == 100

\* The date range of a condition: the bounds that are truthy.
DateRange(gte, lte) ==
    Obj((IF TruthyString(gte) THEN << <<<<"g", "t", "e">>, Str(gte[1])>> >> ELSE <<>>)
        \o (IF TruthyString(lte) THEN << <<<<"l", "t", "e">>, Str(lte[1])>> >> ELSE <<>>))

\* searchExecutiveOrders(options): the options it gives to searchDocuments.
SearchExecutiveOrders(o) ==
    [conditions |->
        Some(<< <<<<"t", "y", "p", "e">>, Str(<<"P", "R", "E", "S", "D", "O", "C", "U">>)>>,
                <<<<"p", "r", "e", "s", "i", "d", "e", "n", "t", "i", "a", "l", "_", "d", "o", "c", "u", "m", "e", "n", "t", "_", "t", "y", "p", "e">>, Str(<<"e", "x", "e", "c", "u", "t", "i", "v", "e", "_", "o", "r", "d", "e", "r">>)>>,
                <<<<"c", "o", "r", "r", "e", "c", "t", "i", "o", "n">>, Num(0)>> >>
             \o (IF TruthyString(o.president) THEN << <<<<"p", "r", "e", "s", "i", "d", "e", "n", "t">>, Str(o.president[1])>> >> ELSE <<>>)
             \o (IF TruthyNumber(o.year)
                 THEN << <<<<"p", "u", "b", "l", "i", "c", "a", "t", "i", "o", "n", "_", "d", "a", "t", "e">>, Obj(<< <<<<"y", "e", "a", "r">>, Num(o.year[1])>> >>)>> >> ELSE <<>>)
             \o (IF TruthyString(o.term) THEN << <<<<"t", "e", "r", "m">>, Str(o.term[1])>> >> ELSE <<>>)
             \o (IF TruthyString(o.signingDateGte) \/ TruthyString(o.signingDateLte)
                 THEN << <<<<"s", "i", "g", "n", "i", "n", "g", "_", "d", "a", "t", "e">>, DateRange(o.signingDateGte, o.signingDateLte)>> >> ELSE <<>>)),
     fields |-> IF o.fields # None THEN o.fields ELSE Some(SearchFields),
     per_page |-> IF TruthyNumber(o.per_page) THEN o.per_page ELSE Some(SearchPerPageDefault),
     page |-> IF TruthyNumber(o.page) THEN o.page ELSE Some(1),
     order |-> Some(<<"e", "x", "e", "c", "u", "t", "i", "v", "e", "_", "o", "r", "d", "e", "r", "_", "n", "u", "m", "b", "e", "r">>),
     format |-> None]

GET_RECENT_EXECUTIVE_ORDERS == "get_recent_executive_orders"
SEARCH_EXECUTIVE_ORDERS == "search_executive_orders"
SEARCH_DOCUMENTS == "search_documents"

\* The arguments of a tool call: those of no tool are all absent.
NoArgs ==
    [term |-> None, type |-> None, presidential_document_type |-> None, president |-> None,
     agency |-> None, year |-> None, signing_date_gte |-> None, signing_date_lte |-> None,
     publication_date_gte |-> None, publication_date_lte |-> None, publication_year |-> None,
     per_page |-> None, page |-> None]

Slugs == {None, Some(<<"j", "o", "e", "-", "b", "i", "d", "e", "n">>)}
Terms == {None, Some(<<>>), Some(<<"c", "l", "i", "m", "a", "t", "e">>)}
Years == {None, Some(0), Some(2024)}
EarlyDates == {None, Some(<<>>), Some(<<"2", "0", "2", "4", "-", "0", "1", "-", "0", "1">>)}
LateDates == {None, Some(<<>>), Some(<<"2", "0", "2", "4", "-", "0", "6", "-", "3", "0">>)}
PageSizes == {None, Some(0), Some(50)}
PageNumbers == {None, Some(2)}

\* inputSchema of search_executive_orders
ExecutiveOrderArgs ==
    {[NoArgs EXCEPT !.president = p, !.year = y, !.term = t, !.signing_date_gte = g,
                    !.signing_date_lte = l, !.per_page = n, !.page = k] :
        p \in Slugs, y \in Years, t \in Terms, g \in EarlyDates, l \in LateDates,
        n \in PageSizes, k \in PageNumbers}

\* inputSchema of search_documents
DocumentArgs ==
    {[NoArgs EXCEPT !.term = t, !.type = ty, !.president = p, !.publication_date_gte = g,
                    !.publication_date_lte = l, !.publication_year = y, !.per_page = n, !.page = k] :
        t \in Terms, ty \in {None, Some(<<"P", "R", "E", "S", "D", "O", "C", "U">>)}, p \in Slugs, g \in EarlyDates,
        l \in LateDates, y \in Years, n \in PageSizes, k \in PageNumbers}

\* A search operation is about to be called: get_recent_executive_orders
\* at some instant in some time zone, or one of the two search tools with
\* its arguments.
InitSearch ==
    /\ spc = "call"
    /\ \/ /\ sfn = GET_RECENT_EXECUTIVE_ORDERS
          /\ clock \in Clocks
          /\ zone \in Zones
          /\ toolArgs = Some(NoArgs)
       \/ /\ sfn = SEARCH_EXECUTIVE_ORDERS
          /\ clock = 0
          /\ zone = UTC
          /\ toolArgs \in {Some(a) : a \in ExecutiveOrderArgs}
       \/ /\ sfn = SEARCH_DOCUMENTS
          /\ clock = 0
          /\ zone = UTC
          /\ toolArgs \in {Some(a) : a \in DocumentArgs}
    /\ searchArg = None
    /\ PaginatorIdle
    /\ QueryIdle
    /\ ToolsIdle
    /\ VariantsIdle
    /\ PresidentIdle
    /\ HttpIdle
    /\ ConcurrentIdle

\* getRecentExecutiveOrders(), called by the get_recent_executive_orders
\* tool without fields.
GetRecentExecutiveOrders ==
    /\ spc = "call"
    /\ sfn = GET_RECENT_EXECUTIVE_ORDERS
    /\ LET thirtyDaysAgo == SetDate(zone, clock, GetDate(zone, clock) - 30)
           dateStr == IsoDate(thirtyDaysAgo)
       IN  searchArg' = Some(SearchExecutiveOrders([NoOptions EXCEPT !.signingDateGte = Some(dateStr)]))
    /\ spc' = "searched"
    /\ UNCHANGED <<sfn, clock, zone, toolArgs, notSearch>>

\* The handler of search_executive_orders.
SearchExecutiveOrdersTool ==
    /\ spc = "call"
    /\ sfn = SEARCH_EXECUTIVE_ORDERS
    /\ LET args == toolArgs[1]
       IN  searchArg' = Some(SearchExecutiveOrders(
               [president |-> args.president, year |-> args.year, term |-> args.term,
                signingDateGte |-> args.signing_date_gte, signingDateLte |-> args.signing_date_lte,
                fields |-> None, per_page |-> args.per_page, page |-> args.page]))
    /\ spc' = "searched"
    /\ UNCHANGED <<sfn, clock, zone, toolArgs, notSearch>>

PublicationDate_Merged(args) ==
    IF TruthyNumber(args.publication_year) \/ TruthyString(args.publication_date_gte)
       \/ TruthyString(args.publication_date_lte)
    THEN << <<<<"p", "u", "b", "l", "i", "c", "a", "t", "i", "o", "n", "_", "d", "a", "t", "e">>,
              Obj((IF TruthyNumber(args.publication_year)
                   THEN << <<<<"y", "e", "a", "r">>, Num(args.publication_year[1])>> >> ELSE <<>>)
                  \o DateRange(args.publication_date_gte, args.publication_date_lte).e)>> >>
    ELSE <<>>
\* if (args.publication_year) ... else if (args.publication_date_gte ||
\* args.publication_date_lte) ...
PublicationDate(args) ==
    IF TruthyNumber(args.publication_year)
    THEN << <<<<"p", "u", "b", "l", "i", "c", "a", "t", "i", "o", "n", "_", "d", "a", "t", "e">>, Obj(<< <<<<"y", "e", "a", "r">>, Num(args.publication_year[1])>> >>)>> >>
    ELSE IF TruthyString(args.publication_date_gte) \/ TruthyString(args.publication_date_lte)
    THEN << <<<<"p", "u", "b", "l", "i", "c", "a", "t", "i", "o", "n", "_", "d", "a", "t", "e">>, DateRange(args.publication_date_gte, args.publication_date_lte)>> >>
    ELSE <<>>

\* The handler of search_documents.
SearchDocumentsTool ==
    /\ spc = "call"
    /\ sfn = SEARCH_DOCUMENTS
    /\ LET args == toolArgs[1]
           conditions ==
               (IF TruthyString(args.term) THEN << <<<<"t", "e", "r", "m">>, Str(args.term[1])>> >> ELSE <<>>)
               \o (IF TruthyString(args.type) THEN << <<<<"t", "y", "p", "e">>, Str(args.type[1])>> >> ELSE <<>>)
               \o (IF TruthyString(args.presidential_document_type)
                   THEN << <<<<"p", "r", "e", "s", "i", "d", "e", "n", "t", "i", "a", "l", "_", "d", "o", "c", "u", "m", "e", "n", "t", "_", "t", "y", "p", "e">>, Str(args.presidential_document_type[1])>> >>
                   ELSE <<>>)
               \o (IF TruthyString(args.president) THEN << <<<<"p", "r", "e", "s", "i", "d", "e", "n", "t">>, Str(args.president[1])>> >> ELSE <<>>)
               \o (IF TruthyString(args.agency) THEN << <<<<"a", "g", "e", "n", "c", "i", "e", "s">>, Str(args.agency[1])>> >> ELSE <<>>)
               \o PublicationDate(args)
       IN  searchArg' = Some([conditions |-> Some(conditions), fields |-> None,
                              per_page |-> args.per_page, page |-> args.page,
                              order |-> None, format |-> None])
    /\ spc' = "searched"
    /\ UNCHANGED <<sfn, clock, zone, toolArgs, notSearch>>

NextSearch == GetRecentExecutiveOrders \/ SearchExecutiveOrdersTool \/ SearchDocumentsTool

SpecSearch == InitSearch /\ [][NextSearch]_vars

(***************************************************************************)
(* What the search operations ask for.                                     *)
(***************************************************************************)
\* The number of days of a month of the calendar.
DaysIn(y, m) ==
    IF m = 2 THEN (IF (y % 4 = 0 /\ y % 100 # 0) \/ y % 400 = 0 THEN 29 ELSE 28)
    ELSE IF m \in {4, 6, 9, 11} THEN 30 ELSE 31

\* The calendar date before a calendar date.
DayBefore(date) ==
    IF date[3] > 1 THEN <<date[1], date[2], date[3] - 1>>
    ELSE IF date[2] > 1 THEN <<date[1], date[2] - 1, DaysIn(date[1], date[2] - 1)>>
    ELSE <<date[1] - 1, 12, 31>>

RECURSIVE DaysBefore(_, _)
DaysBefore(date, n) == IF n = 0 THEN date ELSE DaysBefore(DayBefore(date), n - 1)

TwoDigits(k) == IF k < 10 THEN <<"0">> \o ToDecimal(k) ELSE ToDecimal(k)
\* YYYY-MM-DD of a calendar date of a four-digit year.
DateText(date) == ToDecimal(date[1]) \o <<"-">> \o TwoDigits(date[2]) \o <<"-">> \o TwoDigits(date[3])

\* The value of a condition of the options given to searchDocuments.
ConditionOf(key) == GetFrom(searchArg[1].conditions[1], key)

\* The current date of the call, where the process runs and in UTC.
LocalDate == CivilOf(DayOf(LocalTime(zone, clock)))
UtcDate == CivilOf(DayOf(clock))

\* C21: getRecentExecutiveOrders searches with a signing date floor that
\* is the calendar date exactly 30 days before the current date of the
\* call, as YYYY-MM-DD, for every current date and time of day, and with
\* no upper bound; the current date is taken as the local one or as the
\* UTC one.
C21_FloorThirtyDaysBefore ==
    (spc = "searched" /\ sfn = GET_RECENT_EXECUTIVE_ORDERS) =>
        \/ ConditionOf(<<"s", "i", "g", "n", "i", "n", "g", "_", "d", "a", "t", "e">>) = Obj(<< <<<<"g", "t", "e">>, Str(DateText(DaysBefore(LocalDate, 30)))>> >>)
        \/ ConditionOf(<<"s", "i", "g", "n", "i", "n", "g", "_", "d", "a", "t", "e">>) = Obj(<< <<<<"g", "t", "e">>, Str(DateText(DaysBefore(UtcDate, 30)))>> >>)

\* What holds of the floor: it is a date 29, 30 or 31 days before the
\* local date of the call, 30 days before in a process that runs in UTC,
\* and there is no upper bound.
C21_FloorAboutThirtyDays ==
    (spc = "searched" /\ sfn = GET_RECENT_EXECUTIVE_ORDERS) =>
        /\ \E n \in 29 .. 31 :
               ConditionOf(<<"s", "i", "g", "n", "i", "n", "g", "_", "d", "a", "t", "e">>) = Obj(<< <<<<"g", "t", "e">>, Str(DateText(DaysBefore(LocalDate, n)))>> >>)
        /\ zone = UTC =>
               ConditionOf(<<"s", "i", "g", "n", "i", "n", "g", "_", "d", "a", "t", "e">>) = Obj(<< <<<<"g", "t", "e">>, Str(DateText(DaysBefore(LocalDate, 30)))>> >>)

C21_OffByOne ==
    /\ spc = "searched"
    /\ sfn = GET_RECENT_EXECUTIVE_ORDERS
    /\ zone = NEW_YORK
    /\ LocalDate = <<2024, 4, 5>>
    /\ UtcDate = <<2024, 4, 5>>
    /\ ConditionOf(<<"s", "i", "g", "n", "i", "n", "g", "_", "d", "a", "t", "e">>) = Obj(<< <<<<"g", "t", "e">>, Str(<<"2", "0", "2", "4", "-", "0", "3", "-", "0", "7">>)>> >>)

\* C24: when search_executive_orders is called without per_page, the
\* search request has the page size 20 that the description of the
\* parameter gives as the default.
C24_DefaultTwenty ==
    (spc = "searched" /\ sfn = SEARCH_EXECUTIVE_ORDERS /\ toolArgs[1].per_page = None) =>
        searchArg[1].per_page = Some(20)

\* What the request has instead: the page size 100.
C24_DefaultHundred ==
    (spc = "searched" /\ sfn = SEARCH_EXECUTIVE_ORDERS /\ toolArgs[1].per_page \in {None, Some(0)}) =>
        searchArg[1].per_page = Some(100)

\* The sub-keys of the publication_date condition that was sent; none
\* when there is no such condition.
PublicationKeys ==
    LET value == ConditionOf(<<"p", "u", "b", "l", "i", "c", "a", "t", "i", "o", "n", "_", "d", "a", "t", "e">>)
    IN  [j \in 1 .. Len(value.e) |-> value.e[j]]

\* The bounds among the arguments, each with its sub-key.
BoundsGiven(args) ==
    (IF args.publication_date_gte # None
     THEN << <<<<"g", "t", "e">>, Str(args.publication_date_gte[1])>> >> ELSE <<>>)
    \o (IF args.publication_date_lte # None
        THEN << <<<<"l", "t", "e">>, Str(args.publication_date_lte[1])>> >> ELSE <<>>)

\* C28, as stated: in search_documents, when publication_year is given
\* the publication_date condition holds only the year sub-key, whatever
\* bounds were supplied; when it is not given, exactly the supplied bounds
\* are sent.
C28_YearGiven ==
    (spc = "searched" /\ sfn = SEARCH_DOCUMENTS) =>
        LET args == toolArgs[1]
        IN  IF args.publication_year # None
            THEN PublicationKeys = << <<<<"y", "e", "a", "r">>, Num(args.publication_year[1])>> >>
            ELSE PublicationKeys = BoundsGiven(args)

\* C28, amended: when publication_year is given and is not 0, the
\* publication_date condition holds only the year sub-key, whatever
\* bounds were supplied; otherwise exactly the supplied bounds that are
\* not the empty string are sent, gte before lte, and there is no
\* publication_date condition when there is no such bound.
C28_YearPrecedence ==
    (spc = "searched" /\ sfn = SEARCH_DOCUMENTS) =>
        LET args == toolArgs[1]
            kept == SelectSeq(BoundsGiven(args), LAMBDA b : b[2].s # <<>>)
        IN  /\ args.publication_year \notin {None, Some(0)} =>
                   ConditionOf(<<"p", "u", "b", "l", "i", "c", "a", "t", "i", "o", "n", "_", "d", "a", "t", "e">>) = Obj(<< <<<<"y", "e", "a", "r">>, Num(args.publication_year[1])>> >>)
            /\ args.publication_year \in {None, Some(0)} =>
                   /\ PublicationKeys = kept
                   /\ kept = <<>> <=> ConditionOf(<<"p", "u", "b", "l", "i", "c", "a", "t", "i", "o", "n", "_", "d", "a", "t", "e">>) = Undefined

C28_Witness ==
    /\ spc = "searched"
    /\ sfn = SEARCH_DOCUMENTS
    /\ toolArgs[1].publication_year = Some(2024)
    /\ toolArgs[1].publication_date_gte = Some(<<"2", "0", "2", "4", "-", "0", "1", "-", "0", "1">>)
    /\ toolArgs[1].publication_date_lte = Some(<<"2", "0", "2", "4", "-", "0", "6", "-", "3", "0">>)
    /\ ConditionOf(<<"p", "u", "b", "l", "i", "c", "a", "t", "i", "o", "n", "_", "d", "a", "t", "e">>) = Obj(<< <<<<"y", "e", "a", "r">>, Num(2024)>> >>)

(***************************************************************************)
(* The CommonJS copy of buildQueryString beside the TypeScript one.        *)
(***************************************************************************)
TypeError == "TypeError"

\* One iteration of addConditions of the CommonJS copy: typeof null is
\* 'object', so a null value is given to Object.entries, which throws.
AddConditionJs(parts, prefix, key, value) ==
    IF value.t \in {"object", "null"}
    THEN (IF value.t = "null" THEN Append(parts, <<TypeError>>)
          ELSE AddSubEntries(parts, prefix, key, value.e))
    ELSE IF value.t = "array"
    THEN AddItems(parts, prefix, key, value.e)
    ELSE AddParam(parts, ScalarKey(prefix, key), value)

RECURSIVE AddConditionsJs(_, _, _)
AddConditionsJs(parts, conditions, prefix) ==
    IF conditions = <<>> THEN parts
    ELSE AddConditionsJs(AddConditionJs(parts, prefix, Head(conditions)[1], Head(conditions)[2]),
                         Tail(conditions), prefix)

\* function buildQueryString(params) of the CommonJS copy
BuildQueryStringJs(p) ==
    LET afterConditions ==
            IF p.conditions # None
            THEN AddConditionsJs(<<>>, p.conditions[1], <<"c", "o", "n", "d", "i", "t", "i", "o", "n", "s">>)
            ELSE <<>>
        afterFields ==
            IF p.fields # None /\ Len(p.fields[1]) > 0
            THEN AddFields(afterConditions, p.fields[1])
            ELSE afterConditions
        afterPerPage == AddNumber(afterFields, <<"p", "e", "r", "_", "p", "a", "g", "e">>, p.per_page)
        afterPage == AddNumber(afterPerPage, <<"p", "a", "g", "e">>, p.page)
        afterOrder == AddString(afterPage, <<"o", "r", "d", "e", "r">>, p.order)
        afterFormat == AddString(afterOrder, <<"f", "o", "r", "m", "a", "t">>, p.format)
    IN  Join(afterFormat, <<"&">>)

\* Both copies are about to be applied to one parameter object.
InitVariants ==
    /\ qpc = "input"
    /\ params \in ParamSet
    /\ endpoint = SearchEndpoint
    /\ docFields = None
    /\ url = None
    /\ qs = <<>>
    /\ requests = <<>>
    /\ response = None
    /\ bodyRead = FALSE
    /\ outcome = None
    /\ jpc = "input"
    /\ jqs = <<>>
    /\ PaginatorIdle
    /\ ToolsIdle
    /\ SearchIdle
    /\ PresidentIdle
    /\ HttpIdle
    /\ ConcurrentIdle

\* The CommonJS buildQueryString applied to params: it returns, or a
\* TypeError or URIError leaves it.
BuildJs ==
    /\ jpc = "input"
    /\ LET queryString == BuildQueryStringJs(params)
       IN  IF Count(queryString, TypeError) + Count(queryString, URIError) > 0
           THEN jqs' = <<>> /\ jpc' = "threw"
           ELSE jqs' = queryString /\ jpc' = "built"
    /\ UNCHANGED notVariants

NextVariants == Build \/ BuildJs

SpecVariants == InitVariants /\ [][NextVariants]_vars

\* C30: the TypeScript and the CommonJS buildQueryString are equivalent:
\* for every parameter object, null, nested, sequence and scalar condition
\* values included, both return the same string or both fail.
C30_SameOutcome ==
    (qpc \in {"built", "threw"} /\ jpc \in {"built", "threw"}) =>
        /\ qpc = jpc
        /\ qs = jqs

\* What holds: the two differ only on a parameter object that has a null
\* condition value, where the CommonJS copy fails.
C30_SameButForNull ==
    (qpc \in {"built", "threw"} /\ jpc \in {"built", "threw"}) =>
        IF params.conditions # None
           /\ \E i \in 1 .. Len(params.conditions[1]) : params.conditions[1][i][2] = Null
        THEN jpc = "threw"
        ELSE qpc = jpc /\ qs = jqs

C30_NullCondition ==
    /\ params.conditions = Some(<< <<TypeKey, Null>> >>)
    /\ params.per_page = Some(50)
    /\ qpc = "built"
    /\ qs = <<"p", "e", "r", "_", "p", "a", "g", "e", "=", "5", "0">>
    /\ jpc = "threw"

(***************************************************************************)
(* getExecutiveOrdersByPresident: the steps of the code.                   *)
(***************************************************************************)
\* per_page: 1000
PresidentPerPage == 1000

\* The options of the search for the page pg.
PresidentSearch(name, fields, pg) ==
    SearchExecutiveOrders([NoOptions EXCEPT !.president = Some(name), !.fields = fields,
                                            !.per_page = Some(PresidentPerPage), !.page = Some(pg)])

HasMore_Uncapped(pg, tp) == tp # None /\ pg < tp[1]
\* hasMore = page < response.total_pages && page < 2   (a comparison
\* with undefined is false)
HasMore(pg, tp) == tp # None /\ pg < tp[1] /\ pg < 2

InitPresident ==
    /\ bpc = "start"
    /\ president \in {<<"j", "o", "e", "-", "b", "i", "d", "e", "n">>, <<>>}
    /\ fieldsArg \in {None, Some(<<<<"t", "i", "t", "l", "e">>>>)}
    /\ hasMore = FALSE
    /\ pageNo = 0
    /\ fetched = <<>>
    /\ searches = <<>>
    /\ replies = <<>>
    /\ returned = None
    /\ PaginatorIdle
    /\ QueryIdle
    /\ ToolsIdle
    /\ SearchIdle
    /\ VariantsIdle
    /\ HttpIdle
    /\ ConcurrentIdle

\* From the call to the first await: page = 1, hasMore = true, and the
\* first search is issued.
InvokePresident ==
    /\ bpc = "start"
    /\ pageNo' = 1
    /\ hasMore' = TRUE
    /\ searches' = Append(searches, PresidentSearch(president, fieldsArg, 1))
    /\ bpc' = "awaiting"
    /\ UNCHANGED <<president, fieldsArg, fetched, replies, returned, notPresident>>

\* The awaited search resolves: the rest of the loop body, the loop test,
\* and either the next search or the return.
ResolvePresident(r) ==
    /\ bpc = "awaiting"
    /\ replies' = Append(replies, r)
    /\ LET nonEmpty == r.results # None /\ Len(r.results[1]) > 0
           more == IF nonEmpty THEN HasMore(pageNo, r.total_pages) ELSE FALSE
       IN  /\ fetched' = (IF nonEmpty THEN fetched \o r.results[1] ELSE fetched)
           /\ pageNo' = (IF nonEmpty THEN pageNo + 1 ELSE pageNo)
           /\ hasMore' = more
           /\ IF more
              THEN /\ searches' = Append(searches, PresidentSearch(president, fieldsArg, pageNo'))
                   /\ bpc' = "awaiting"
                   /\ returned' = returned
              ELSE /\ searches' = searches
                   /\ bpc' = "done"
                   /\ returned' = Some(fetched')
    /\ UNCHANGED <<president, fieldsArg, notPresident>>

\* The awaited search rejects: the invocation rejects.
RejectPresident ==
    /\ bpc = "awaiting"
    /\ bpc' = "failed"
    /\ UNCHANGED <<president, fieldsArg, hasMore, pageNo, fetched, searches, replies, returned, notPresident>>

NextPresident ==
    \/ InvokePresident
    \/ \E r \in SearchResults(Len(searches)) : ResolvePresident(r)
    \/ RejectPresident

SpecPresident == InitPresident /\ [][NextPresident]_vars

\* Every search settles, and the code between two awaits runs to its end.
FairSpecPresident == SpecPresident /\ WF_vars(NextPresident)

\* The pages the searches were sent for, and their sizes.
PagesAsked == [i \in 1 .. Len(searches) |-> searches[i].page]

\* C29: getExecutiveOrdersByPresident always terminates, after at most 2
\* search requests: for page 1 and then page 2, each with per_page 1000,
\* the second issued only after the first has resolved; it stops after the
\* first when that one is empty or has total_pages <= 1; it returns the
\* concatenation of the pages it fetched, in order, also when total_pages
\* says that there are more than 2 pages.
C29_TwoPagesAtMost ==
    /\ <>(bpc \in {"done", "failed"})
    /\ [](/\ Len(searches) <= 2
          /\ PagesAsked = SubSeq(<<Some(1), Some(2)>>, 1, Len(searches))
          /\ \A i \in 1 .. Len(searches) :
                 /\ searches[i].per_page = Some(1000)
                 /\ GetFrom(searches[i].conditions[1], <<"p", "r", "e", "s", "i", "d", "e", "n", "t">>)
                        = (IF president = <<>> THEN Undefined ELSE Str(president))
          /\ Len(searches) <= Len(replies) + 1
          /\ bpc \in {"start", "done"} => Len(searches) = Len(replies)
          /\ (Len(replies) >= 1
              /\ (PageOf(replies[1]) = <<>> \/ replies[1].total_pages \in {Some(0), Some(1)}))
                 => (Len(searches) = 1 /\ bpc = "done")
          /\ bpc = "done" => returned = Some(ConcatPages(replies))
          /\ bpc # "done" => returned = None)

C29_Witness ==
    /\ bpc = "done"
    /\ Len(searches) = 2
    /\ Len(replies) = 2
    /\ replies[2].total_pages = Some(3)
    /\ Len(PageOf(replies[1])) = 2
    /\ Len(PageOf(replies[2])) = 2
    /\ returned = Some(PageOf(replies[1]) \o PageOf(replies[2]))

(***************************************************************************)
(* HTTP mode: the session map of runHttpServer and its handlers.  The      *)
(* transport is the framework's: handleRequest on an initialize request    *)
(* that it accepts draws the session id from sessionIdGenerator and calls  *)
(* onsessioninitialized; close() calls onclose.                            *)
(***************************************************************************)
\* Most transports constructed in one run.
MaxTransports == 2

\* The ids randomUUID can return; an id is never drawn twice.
SessionIds == {"uuid-1", "uuid-2", "uuid-3"}

\* A key every object literal inherits from Object.prototype.
ObjectPrototype == {"constructor"}

\* req.headers['mcp-session-id']: absent, empty, or some text.
Headers == {None, Some("")} \cup {Some(k) : k \in SessionIds \cup ObjectPrototype}

BadRequest == 400
InternalError == 500
\* The framework's transport answered the request itself.
Handled == 200
\* The framework's transport refused the request (headers, protocol version, ...).
Refused == 406
\* The handler's promise rejected and nothing was sent.
NoAnswer == 0

OwnKeys(map) == {map[i][1] : i \in DOMAIN map}

\* transports[key]: an own entry, a value inherited from Object.prototype,
\* or undefined.
Lookup(map, key) ==
    IF key \in OwnKeys(map)
    THEN [kind |-> "transport", t |-> map[CHOOSE i \in DOMAIN map : map[i][1] = key][2]]
    ELSE IF key \in ObjectPrototype
         THEN [kind |-> "inherited", t |-> 0]
         ELSE [kind |-> "undefined", t |-> 0]

\* sessionId && transports[sessionId]
Found(map, sid) ==
    IF sid = None \/ sid = Some("")
    THEN [kind |-> "undefined", t |-> 0]
    ELSE Lookup(map, sid[1])

\* onsessioninitialized: transports[newSessionId] = transport
OnSessionInitialized(map, sid, t) ==
    IF sid \in OwnKeys(map)
    THEN [i \in DOMAIN map |-> IF map[i][1] = sid THEN <<sid, t>> ELSE map[i]]
    ELSE Append(map, <<sid, t>>)

OnClose_Keep(map, sid) == map
\* transport.onclose: if (sid && transports[sid]) delete transports[sid]
OnClose(map, sid) ==
    IF sid = None \/ sid = Some("")
    THEN map
    ELSE SelectSeq(map, LAMBDA e : e[1] # sid[1])

\* The session ids of the transports that have closed.
ClosedIds == {made[i].sessionId[1] : i \in {j \in DOMAIN made : made[j].closed /\ made[j].sessionId # None}}

UsedIds == {made[i].sessionId[1] : i \in {j \in DOMAIN made : made[j].sessionId # None}}

NoRequest ==
    [method |-> "none", sid |-> None, init |-> FALSE, status |-> NoAnswer,
     before |-> <<>>, after |-> <<>>, closedThen |-> {}, madeBefore |-> 0, sessions |-> 0]

Logged(method, sid, init, status, after) ==
    [method |-> method, sid |-> sid, init |-> init, status |-> status,
     before |-> transports, after |-> after, closedThen |-> ClosedIds,
     madeBefore |-> Len(made), sessions |-> 0]

Serving == stage \in {"running", "closing"}

InitHttp ==
    /\ transports = <<>>
    /\ made = <<>>
    /\ answer = NoRequest
    /\ stage = "running"
    /\ atSignal = <<>>
    /\ pending = <<>>
    /\ attempts = {}
    /\ PaginatorIdle
    /\ QueryIdle
    /\ ToolsIdle
    /\ SearchIdle
    /\ VariantsIdle
    /\ PresidentIdle
    /\ ConcurrentIdle

\* app.post('/mcp'): sid is the header, init says whether the body is an
\* initialize request, ok whether the framework's transport accepts the
\* request; id is the value randomUUID returns, seen whether a for-in
\* enumeration under way takes up the key added.
PostMcp(sid, init, ok) ==
    /\ Serving
    /\ LET found == Found(transports, sid)
       IN  IF found.kind = "transport"
           THEN /\ answer' = Logged("POST", sid, init, IF ok THEN Handled ELSE Refused, transports)
                /\ UNCHANGED <<transports, made, pending>>
           ELSE IF found.kind = "inherited"
           THEN \* transport.handleRequest is not a function: caught
                /\ answer' = Logged("POST", sid, init, InternalError, transports)
                /\ UNCHANGED <<transports, made, pending>>
           ELSE IF (sid = None \/ sid = Some("")) /\ init
           THEN /\ Len(made) < MaxTransports
                /\ IF ok
                   THEN \E id \in SessionIds \ UsedIds,
                           seen \in (IF stage = "closing" THEN BOOLEAN ELSE {FALSE}) :
                            /\ made' = Append(made, [sessionId |-> Some(id), closed |-> FALSE])
                            /\ transports' = OnSessionInitialized(transports, id, Len(made) + 1)
                            /\ pending' = (IF seen THEN Append(pending, id) ELSE pending)
                            /\ answer' = Logged("POST", sid, init, Handled, transports')
                   ELSE /\ made' = Append(made, [sessionId |-> None, closed |-> FALSE])
                        /\ answer' = Logged("POST", sid, init, Refused, transports)
                        /\ UNCHANGED <<transports, pending>>
           ELSE /\ answer' = Logged("POST", sid, init, BadRequest, transports)
                /\ UNCHANGED <<transports, made, pending>>
    /\ UNCHANGED <<stage, atSignal, attempts, notHttp>>

\* app.get('/mcp'): the handler has no try; caught says whether the
\* web framework answers for a rejected handler.
GetMcp(sid, ok, caught) ==
    /\ Serving
    /\ LET found == Found(transports, sid)
           status == IF found.kind = "undefined" THEN BadRequest
                     ELSE IF found.kind = "transport" THEN (IF ok THEN Handled ELSE Refused)
                     ELSE IF caught THEN InternalError ELSE NoAnswer
       IN  answer' = Logged("GET", sid, FALSE, status, transports)
    /\ UNCHANGED <<transports, made, stage, atSignal, pending, attempts, notHttp>>

\* The transport t closes: onclose runs.
Closed(t) == [made EXCEPT ![t].closed = TRUE]

\* app.delete('/mcp'): the framework's transport, when it accepts the
\* request, closes itself.
DeleteMcp(sid, ok) ==
    /\ Serving
    /\ LET found == Found(transports, sid)
       IN  IF found.kind = "transport" /\ ok
           THEN /\ made' = Closed(found.t)
                /\ transports' = OnClose(transports, made[found.t].sessionId)
                /\ attempts' = attempts \cup {<<found.t, "DELETE", "closed">>}
                /\ answer' = Logged("DELETE", sid, FALSE, Handled, transports')
           ELSE /\ answer' = Logged("DELETE", sid, FALSE,
                                    IF found.kind = "transport" THEN Refused
                                    ELSE IF found.kind = "inherited" THEN InternalError
                                    ELSE BadRequest, transports)
                /\ UNCHANGED <<transports, made, attempts>>
    /\ UNCHANGED <<stage, atSignal, pending, notHttp>>

SessionCount_Inherited(map) == Cardinality(OwnKeys(map) \cup ObjectPrototype)
\* Object.keys(transports).length
SessionCount(map) == Cardinality(OwnKeys(map))

\* app.get('/health')
Health ==
    /\ Serving
    /\ answer' = [Logged("HEALTH", None, FALSE, Handled, transports)
                     EXCEPT !.sessions = SessionCount(transports)]
    /\ UNCHANGED <<transports, made, stage, atSignal, pending, attempts, notHttp>>

\* How close() can end: onclose ran and it resolved, or it threw before
\* onclose ran.
CloseOutcomes == {"closed", "threw"}

\* for-in skips the keys deleted before their turn.
RECURSIVE StillPresent(_, _)
StillPresent(keys, map) ==
    IF keys = <<>> THEN <<>>
    ELSE IF Head(keys) \in OwnKeys(map) THEN keys
    ELSE StillPresent(Tail(keys), map)

AfterClose_Abort(ending, rest) == IF ending = "closed" THEN rest ELSE <<>>
\* try { await close() } catch { console.error }: the loop goes on.
AfterClose(ending, rest) == rest

\* The loop from one await to the next: close the next session, or exit.
Advance(keys, ending) ==
    LET rest == StillPresent(keys, transports)
    IN  IF rest = <<>>
        THEN /\ stage' = "exited"
             /\ pending' = <<>>
             /\ UNCHANGED <<transports, made, attempts>>
        ELSE LET t == Lookup(transports, Head(rest)).t
             IN  /\ stage' = "closing"
                 /\ attempts' = attempts \cup {<<t, "SIGINT", ending>>}
                 /\ IF ending = "threw"
                    THEN UNCHANGED <<transports, made>>
                    ELSE /\ made' = Closed(t)
                         /\ transports' = OnClose(transports, made[t].sessionId)
                 /\ pending' = AfterClose(ending, Tail(rest))

\* process.on('SIGINT'): up to the first await, or to process.exit.
Sigint(ending) ==
    /\ stage = "running"
    /\ atSignal' = transports
    /\ Advance([i \in DOMAIN transports |-> transports[i][1]], ending)
    /\ UNCHANGED <<answer, notHttp>>

\* The awaited close() settled: the next turn of the loop.
ShutdownStep(ending) ==
    /\ stage = "closing"
    /\ Advance(pending, ending)
    /\ UNCHANGED <<answer, atSignal, notHttp>>

NextHttp ==
    \/ \E sid \in Headers, init \in BOOLEAN, ok \in BOOLEAN : PostMcp(sid, init, ok)
    \/ \E sid \in Headers, ok \in BOOLEAN, caught \in BOOLEAN : GetMcp(sid, ok, caught)
    \/ \E sid \in Headers, ok \in BOOLEAN : DeleteMcp(sid, ok)
    \/ Health
    \/ \E ending \in CloseOutcomes : Sigint(ending)
    \/ \E ending \in CloseOutcomes : ShutdownStep(ending)

SpecHttp == InitHttp /\ [][NextHttp]_vars

\* The session ids of the transports that were initialized and have not closed.
OpenIds == {made[i].sessionId[1] : i \in {j \in DOMAIN made : ~made[j].closed /\ made[j].sessionId # None}}

NoSessionId(sid) == sid = None \/ sid = Some("")

\* C23: the session map holds exactly the sessions that were initialized
\* and have not closed; it is empty at startup, where /health reports 0
\* sessions; an entry is added only by an initialize request without session
\* id whose initialization completes; each key maps to the transport whose
\* sessionId is that key; /health reports the number of entries.
C23_SessionMap ==
    /\ [](/\ OwnKeys(transports) = OpenIds
          /\ Len(transports) = Cardinality(OwnKeys(transports))
          /\ \A i \in DOMAIN transports : made[transports[i][2]].sessionId = Some(transports[i][1])
          /\ made = <<>> => transports = <<>>
          /\ answer.method = "HEALTH" =>
                 /\ answer.sessions = Len(answer.before)
                 /\ answer.madeBefore = 0 => answer.sessions = 0)
    /\ [][Len(transports') > Len(transports) =>
              /\ answer'.method = "POST"
              /\ NoSessionId(answer'.sid)
              /\ answer'.init
              /\ answer'.status = Handled
              /\ answer'.before = transports
              /\ answer'.after = transports'
              /\ Len(transports') = Len(transports) + 1]_vars

C23_Witness ==
    /\ answer.method = "HEALTH"
    /\ answer.sessions = 1
    /\ Len(transports) = 1
    /\ ClosedIds # {}

\* C25: once a session's transport has closed its id is not in the session
\* map, every later POST, GET or DELETE /mcp with that id is answered 400,
\* and a close removes that session's entry alone.
C25_ClosedSession ==
    /\ [](/\ ClosedIds \cap OwnKeys(transports) = {}
          /\ (/\ answer.method \in {"POST", "GET", "DELETE"}
              /\ answer.sid # None
              /\ answer.sid[1] \in answer.closedThen)
                 => (answer.status = 400 /\ answer.after = answer.before))
    /\ [][\A t \in DOMAIN made :
              (made'[t].closed /\ ~made[t].closed) =>
                  transports' = SelectSeq(transports, LAMBDA e : Some(e[1]) # made[t].sessionId)]_vars

C25_Witness ==
    /\ answer.method = "POST"
    /\ answer.init
    /\ answer.sid # None
    /\ answer.sid[1] \in answer.closedThen
    /\ Len(answer.before) = 1
    /\ answer.status = 400

\* The request logged is one of: a POST with a session id that is not a key
\* of the map, a POST without session id whose body is not an initialize
\* request, a GET or DELETE whose session id is missing or not a key.
UnknownSession ==
    LET missing == NoSessionId(answer.sid)
        unknown == ~missing /\ answer.sid[1] \notin OwnKeys(answer.before)
    IN  \/ answer.method = "POST" /\ unknown
        \/ answer.method = "POST" /\ missing /\ ~answer.init
        \/ answer.method \in {"GET", "DELETE"} /\ (missing \/ unknown)

\* C26: a POST with a session id that is not in the map, a POST without
\* session id that is not an initialize request, and a GET or DELETE with a
\* missing or unknown session id are answered 400 and leave the map as it was.
C26_BadRequest ==
    UnknownSession => (answer.status = 400 /\ answer.after = answer.before)

\* The same for session ids that name no property of Object.prototype.
C26_BadRequestUnlessInherited ==
    (UnknownSession /\ (answer.sid = None \/ answer.sid[1] \notin ObjectPrototype))
        => (answer.status = 400 /\ answer.after = answer.before)

C26_Inherited ==
    /\ answer.method = "POST"
    /\ answer.sid = Some("constructor")
    /\ answer.status = 500

\* C27: when the process exits after SIGINT, close() was called on the
\* transport of every session that was in the map when the signal arrived,
\* also when a close() threw or removed its entry from the map on the way.
C27_AllAttempted ==
    stage = "exited" =>
        \A i \in DOMAIN atSignal : \E a \in attempts : a[1] = atSignal[i][2]

C27_Witness ==
    /\ stage = "exited"
    /\ Len(atSignal) = 2
    /\ <<atSignal[1][2], "SIGINT", "threw">> \in attempts
    /\ <<atSignal[2][2], "SIGINT", "closed">> \in attempts
    /\ Len(transports) = 1

(***************************************************************************)
(* Concurrent calls of getAllResults.  A call runs from one await to the   *)
(* next without interruption; the calls interleave at their awaits.  All   *)
(* calls are given the same options object.                                *)
(***************************************************************************)
Callers == {1, 2}

\* The search function answers a request by its page: total pages of len
\* records each, then empty pages; total_pages is reported or missing.
Upstreams == [total : 0 .. MaxTotalPages, len : 0 .. MaxPageLen, reported : BOOLEAN]

Reply(u, pg) ==
    [results |-> IF pg <= u.total THEN Some(Records(pg, u.len)) ELSE Some(<<>>),
     total_pages |-> IF u.reported THEN Some(u.total) ELSE None]

OptionsAfter_Assign(opts, pg, pp) == [opts EXCEPT !.page = Some(pg), !.per_page = Some(pp)]
\* The caller's object after { ...options, page, per_page: perPage } was
\* built from it: the spread copies, it does not write.
OptionsAfter(opts, pg, pp) == opts

NoLocals ==
    [pc |-> "start", allResults |-> <<>>, page |-> 0, perPage |-> 0, asked |-> <<>>, result |-> <<>>]

InitConcurrent ==
    /\ shared \in OptionsSet
    /\ given = shared
    /\ limit \in [Callers -> {0, 1, MaxResultsBound}]
    /\ upstream \in Upstreams
    /\ frames = [c \in Callers |-> NoLocals]
    /\ overlap = FALSE
    /\ PaginatorIdle
    /\ QueryIdle
    /\ ToolsIdle
    /\ SearchIdle
    /\ VariantsIdle
    /\ PresidentIdle
    /\ HttpIdle

\* The loop head of the call c, reached with the locals l: the next request
\* is issued, or the call returns.
AtLoopHead(c, l) ==
    IF LoopTest(l.allResults, limit[c])
    THEN /\ frames' = [frames EXCEPT ![c] =
                         [l EXCEPT !.pc = "awaiting",
                                   !.asked = Append(l.asked, CallArgs(shared, l.page, l.perPage))]]
         /\ shared' = OptionsAfter(shared, l.page, l.perPage)
         /\ overlap' = (overlap \/ \E d \in Callers \ {c} : frames[d].pc = "awaiting")
    ELSE /\ frames' = [frames EXCEPT ![c] =
                         [l EXCEPT !.pc = "done", !.result = SliceTo(l.allResults, limit[c])]]
         /\ UNCHANGED <<shared, overlap>>

\* break; return allResults.slice(0, maxResults)
Returning(c, l) ==
    /\ frames' = [frames EXCEPT ![c] =
                    [l EXCEPT !.pc = "done", !.result = SliceTo(l.allResults, limit[c])]]
    /\ UNCHANGED <<shared, overlap>>

\* The call c of getAllResults up to its first await (or its return).
InvokeCall(c) ==
    /\ frames[c].pc = "start"
    /\ AtLoopHead(c, [frames[c] EXCEPT !.page = 1, !.perPage = EffectivePerPage(shared)])
    /\ UNCHANGED <<given, limit, upstream, notConcurrent>>

\* The promise the call c awaits resolves: the rest of the loop body, up to
\* the next await (or the return).
ResolveCall(c) ==
    /\ frames[c].pc = "awaiting"
    /\ LET l == frames[c]
           r == Reply(upstream, l.page)
       IN  IF IsEmptyPage(r)
           THEN Returning(c, l)
           ELSE LET grown == [l EXCEPT !.allResults = l.allResults \o r.results[1]]
                IN  IF Exhausted(l.page, r.total_pages)
                    THEN Returning(c, grown)
                    ELSE AtLoopHead(c, [grown EXCEPT !.page = l.page + 1])
    /\ UNCHANGED <<given, limit, upstream, notConcurrent>>

NextConcurrent ==
    \/ \E c \in Callers : InvokeCall(c)
    \/ \E c \in Callers : ResolveCall(c)

SpecConcurrent == InitConcurrent /\ [][NextConcurrent]_vars

\* One call of getAllResults run alone from the loop head: the requests it
\* issues and the value it returns.
RECURSIVE AloneFrom(_, _, _, _, _, _, _)
AloneFrom(opts, max, u, all, pg, pp, asked) ==
    IF ~LoopTest(all, max)
    THEN [asked |-> asked, result |-> SliceTo(all, max)]
    ELSE LET r == Reply(u, pg)
             asked2 == Append(asked, CallArgs(opts, pg, pp))
         IN  IF IsEmptyPage(r)
             THEN [asked |-> asked2, result |-> SliceTo(all, max)]
             ELSE IF Exhausted(pg, r.total_pages)
             THEN [asked |-> asked2, result |-> SliceTo(all \o r.results[1], max)]
             ELSE AloneFrom(opts, max, u, all \o r.results[1], pg + 1, pp, asked2)

Alone(c) == AloneFrom(given, limit[c], upstream, <<>>, 1, EffectivePerPage(given), <<>>)

====
